---------------------------- MODULE Spec2Model ----------------------------
(***************************************************************************)
(* Model of the RCC (RGB LED Color Cube) firmware: the main control loop   *)
(* of main.c (gesture counting, command dispatch, channel selection,       *)
(* adjustment session, EEPROM persistence, power-down and restart), the    *)
(* LED frame encoder of led.c, the tick interrupt with the reads of the    *)
(* tick counter byte by byte, and spi_init() and spi_transfer() of spi.c   *)
(* under led_init().                                                       *)
(*                                                                         *)
(* One action models one stretch of main() between two points where the    *)
(* program samples the button or blocks; the tick interrupt and the button *)
(* are the environment.                                                    *)
(***************************************************************************)
EXTENDS Integers, Sequences, FiniteSets, TLC

(***************************************************************************)
(* Program constants.                                                      *)
(***************************************************************************)
SWITCH_COMMAND_EXECUTE_MS == 3000
SWITCH_SYSTEM_OFF_TIME_MS == 3000
ENABLE_EEPROM_WRITE == TRUE

LED_NUMBER_OF_LEDS == 2
LED_FRAME_SIZE == 4
LED_START_VALUE == 0
LED_STOP_VALUE == 255
LED_ENABLE_FLAG == 224
LED_SLEEP_FLAG == 160
LED_MIN_INTENSITY == 1
LED_MAX_INTENSITY == 15

LED_Status_None == 0
LED_Status_Ready == 1
LED_Status_Warning == 2
LED_Status_Error == 3

LED_Delay_MS_100 == 1
LED_Delay_MS_200 == 2
LED_Delay_MS_500 == 5

LED_Position_None == 0
LED_Position_Left == 1
LED_Position_Right == 2
LED_Position_Left_Alternating == 4
LED_Position_Right_Alternating == 8

BATTERY_Ok == 0
BATTERY_Fault == 1

\* enum SPI_Status_t
SPI_Master_Abort == 2
SPI_None == 3

\* Widths of the C types on the AVR target: unsigned char, unsigned int,
\* unsigned long.
UCHAR_MOD == 2^8
UINT_MOD == 2^16
\* An unsigned long is four bytes, kept least significant byte first as in
\* the AVR's memory.
sizeof_ulong == 4

(***************************************************************************)
(* Bounds of the model.                                                    *)
(***************************************************************************)
\* Tick interrupts are taken in batches of TickStep ticks: half a command
\* window, so that an elapsed time of exactly the window and one above it
\* are both observed.
TickStep == SWITCH_COMMAND_EXECUTE_MS \div 2
\* Number of tick batches per boot.
MaxTicks == 6
\* Largest click count the press handler is allowed to reach.
MaxClicks == 5
\* Number of adjustment-loop iterations the model follows.
MaxAdjust == 2

VARIABLES
    pc,                 \* position of main()
    button,             \* PORTA.IN & SWITCH, the level of the push-button
    systick,            \* volatile unsigned long systick
    last_button_press,  \* static unsigned long last_button_press
    switch_count,       \* static unsigned int switch_count
    execute_command,    \* static unsigned char execute_command
    position,           \* LED_Position position (local of the command block)
    led,                \* LED_Data *led (local of the command block)
    led1, led2,         \* LED_Data led1, led2
    eeprom,             \* EEPROM cells holding ee_led1 and ee_led2
    wire,               \* bytes sent over SPI by the last step of main()
    nvm_op,             \* EEPROM access made by the last step of main()
    timer,              \* TCA0 enabled with its overflow interrupt
    adc,                \* ADC enabled (battery measurement)
    spi,                \* SPI0 enabled
    pin7_isc,           \* PORTA.PIN7CTRL input sense configuration
    budget,             \* adjustment iterations the model still follows
    ticks,              \* tick batches the model still follows in this boot
    presses,            \* parity of the button presses of a channel selection
    call,               \* the call of the LED library in progress or returned
    spi_master,         \* SPI0.CTRLA & SPI_MASTER_bm
    spi_if,             \* SPI0.INTFLAGS & SPI_IF_bm
    spi_status,         \* the value returned by spi_init()
    rd,                 \* bytes of systick main() has loaded for one read
    since               \* tick interrupts since last_button_press was taken

vars == <<pc, button, systick, last_button_press, switch_count,
          execute_command, position, led, led1, led2, eeprom, wire, nvm_op,
          timer, adc, spi, pin7_isc, budget, ticks, presses, call,
          spi_master, spi_if, spi_status, rd, since>>

(***************************************************************************)
(* Bitwise operators of C on unsigned values.                              *)
(***************************************************************************)
RECURSIVE BitAnd(_, _)
BitAnd(a, b) ==
    IF a = 0 \/ b = 0 THEN 0
    ELSE (a % 2) * (b % 2) + 2 * BitAnd(a \div 2, b \div 2)

RECURSIVE BitOr(_, _)
BitOr(a, b) ==
    IF a = 0 THEN b
    ELSE IF b = 0 THEN a
    ELSE (IF a % 2 = 1 \/ b % 2 = 1 THEN 1 ELSE 0)
         + 2 * BitOr(a \div 2, b \div 2)

(***************************************************************************)
(* unsigned long arithmetic on the four bytes of a value.                  *)
(***************************************************************************)
\* The unsigned long holding n.
ulong(n) == [i \in 1..sizeof_ulong |-> (n \div UCHAR_MOD^(i - 1)) % UCHAR_MOD]

RECURSIVE ul_add_from(_, _, _, _)
ul_add_from(a, b, i, carry) ==
    IF i > sizeof_ulong THEN <<>>
    ELSE LET sum == a[i] + b[i] + carry
         IN <<sum % UCHAR_MOD>> \o ul_add_from(a, b, i + 1, sum \div UCHAR_MOD)

\* a + b modulo 2^32
ul_add(a, b) == ul_add_from(a, b, 1, 0)

RECURSIVE ul_sub_from(_, _, _, _)
ul_sub_from(a, b, i, borrow) ==
    IF i > sizeof_ulong THEN <<>>
    ELSE LET d == a[i] - b[i] - borrow
         IN <<(d + UCHAR_MOD) % UCHAR_MOD>>
            \o ul_sub_from(a, b, i + 1, IF d < 0 THEN 1 ELSE 0)

\* The bitwise complement of a, which is 2^32 - 1 - a.
ul_not(a) == [i \in 1..sizeof_ulong |-> UCHAR_MOD - 1 - a[i]]

\* A difference that stops at 0 instead of wrapping.
ul_sub_clamped(a, b) ==
    IF \E i \in 1..sizeof_ulong :
          /\ a[i] < b[i]
          /\ \A j \in (i + 1)..sizeof_ulong : a[j] = b[j]
    THEN [i \in 1..sizeof_ulong |-> 0]
    ELSE ul_sub_from(a, b, 1, 0)

\* a - b modulo 2^32
ul_sub(a, b) == ul_sub_from(a, b, 1, 0)

RECURSIVE ul_gt_from(_, _, _)
ul_gt_from(a, b, i) ==
    IF i < 1 THEN FALSE
    ELSE IF a[i] # b[i] THEN a[i] > b[i]
    ELSE ul_gt_from(a, b, i - 1)

\* a > b and a < b on unsigned long values
ul_gt(a, b) == ul_gt_from(a, b, sizeof_ulong)
ul_lt(a, b) == ul_gt(b, a)

RECURSIVE Repeat(_, _)
Repeat(s, n) == IF n <= 0 THEN <<>> ELSE s \o Repeat(s, n - 1)

(***************************************************************************)
(* led.c: the frame encoder.  Each operator is the byte sequence the       *)
(* function passes to spi_transfer, in order.                              *)
(***************************************************************************)
LED_Data(i, r, g, b) == [intensity |-> i, red |-> r, green |-> g, blue |-> b]

\* A variant of led_frame that sends red first and blue last.
led_frame_rgb(mode, red, green, blue) == <<mode, red, green, blue>>

led_frame(mode, red, green, blue) == <<mode, blue, green, red>>

\* A variant of led_xof that sends one byte less.
led_xof_short(value) == [i \in 1..(LED_FRAME_SIZE - 1) |-> value]

led_xof(value) == [i \in 1..LED_FRAME_SIZE |-> value]

LED_SOF == led_xof(LED_START_VALUE)

LED_EOF == led_xof(LED_STOP_VALUE)

\* A variant of led_data that sends the intensity without the enable flag.
led_data_unflagged(data) ==
    led_frame(BitAnd(63, data.intensity), data.red, data.green, data.blue)

led_data(data) ==
    led_frame(BitOr(LED_ENABLE_FLAG, BitAnd(63, data.intensity)),
              data.red, data.green, data.blue)

\* A variant of led_off with the sleep flag as mode byte.
led_off_sleep == led_frame(LED_SLEEP_FLAG, 0, 0, 0)

led_off == led_frame(LED_ENABLE_FLAG, 0, 0, 0)

leds_off == LED_SOF \o Repeat(led_off, LED_NUMBER_OF_LEDS) \o LED_EOF

led_init == LED_SOF
            \o Repeat(led_frame(LED_ENABLE_FLAG, 0, 0, 0), LED_NUMBER_OF_LEDS)
            \o LED_EOF

\* A variant of the pass of led_disable that sends the enable flag.
led_disable_cycle_enable ==
    LED_SOF
    \o Repeat(led_frame(LED_ENABLE_FLAG, 0, 0, 0), LED_NUMBER_OF_LEDS)
    \o LED_EOF

\* One pass of the outer loop of led_disable.
led_disable_cycle ==
    LED_SOF
    \o Repeat(led_frame(LED_SLEEP_FLAG, 0, 0, 0), LED_NUMBER_OF_LEDS)
    \o LED_EOF

\* for (unsigned char j=0; j < 4; j++)
led_disable_passes == 4

led_disable == Repeat(led_disable_cycle, led_disable_passes)

\* A variant of led_status_color that bounds the intensity.
led_status_color_bounded(status, intensity) ==
    LET i == IF intensity > LED_MAX_INTENSITY THEN LED_MAX_INTENSITY
             ELSE intensity
    IN CASE status = LED_Status_Ready   -> LED_Data(i, 0, 255, 0)
         [] status = LED_Status_Warning -> LED_Data(i, 255, 255, 0)
         [] status = LED_Status_Error   -> LED_Data(i, 255, 0, 0)
         [] OTHER                       -> LED_Data(i, 0, 0, 0)

led_status_color(status, intensity) ==
    CASE status = LED_Status_Ready   -> LED_Data(intensity, 0, 255, 0)
      [] status = LED_Status_Warning -> LED_Data(intensity, 255, 255, 0)
      [] status = LED_Status_Error   -> LED_Data(intensity, 255, 0, 0)
      [] OTHER                       -> LED_Data(intensity, 0, 0, 0)

\* The frame led_color sends for LED j (0-based).
led_color_frame(j, pos, color) ==
    IF LED_NUMBER_OF_LEDS % 2 # 0 /\ j = LED_NUMBER_OF_LEDS \div 2
    THEN led_off
    ELSE IF j < LED_NUMBER_OF_LEDS \div 2
         THEN IF BitAnd(pos, LED_Position_Left) # 0
                 \/ BitAnd(pos, LED_Position_Left_Alternating) # 0
              THEN led_data(color) ELSE led_off
         ELSE IF BitAnd(pos, LED_Position_Right) # 0
                 \/ BitAnd(pos, LED_Position_Right_Alternating) # 0
              THEN led_data(color) ELSE led_off

RECURSIVE led_color_frames(_, _, _)
led_color_frames(j, pos, color) ==
    IF j >= LED_NUMBER_OF_LEDS THEN <<>>
    ELSE led_color_frame(j, pos, color) \o led_color_frames(j + 1, pos, color)

\* A variant of led_color that lights every channel whatever the mask.
led_color_all(pos, color) ==
    LED_SOF \o Repeat(led_data(color), LED_NUMBER_OF_LEDS) \o LED_EOF

led_color(pos, color) == LED_SOF \o led_color_frames(0, pos, color) \o LED_EOF

\* A variant of the loop body with the two led_color calls exchanged.
led_blink_cycle_exchanged(pos, color) ==
    led_color(BitAnd(pos, BitOr(LED_Position_Left_Alternating,
                                LED_Position_Right_Alternating)), color)
    \o led_color(BitAnd(pos, BitOr(LED_Position_Left, LED_Position_Right)),
                 color)

\* One pass of the loop body of led_blink.
led_blink_cycle(pos, color) ==
    led_color(BitAnd(pos, BitOr(LED_Position_Left, LED_Position_Right)), color)
    \o led_color(BitAnd(pos, BitOr(LED_Position_Left_Alternating,
                                   LED_Position_Right_Alternating)), color)

\* for (unsigned char i=0; i < (repeat + 1); i++): repeat + 1 is computed in
\* int, so the body runs repeat + 1 times (for repeat < 255).
led_blink(pos, color, delay, repeat) ==
    Repeat(led_blink_cycle(pos, color), repeat + 1) \o leds_off

\* led_delay(): the milliseconds of one delay of a blink.
led_delay(delay) == 100 * delay

\* The time led_blink spends in its delays.
led_blink_ms(delay, repeat) == (repeat + 1) * 2 * led_delay(delay)

(***************************************************************************)
(* EEPROM: ee_led1 and ee_led2 are two 4-byte records; the block functions *)
(* copy a struct byte by byte in field order.                              *)
(***************************************************************************)
sizeof_LED_Data == 4
ee_led1 == 0
ee_led2 == 4

LED_Data_bytes(d) == <<d.intensity, d.red, d.green, d.blue>>

LED_Data_struct(b) == LED_Data(b[1], b[2], b[3], b[4])

eeprom_read_block(mem, addr, n) == [i \in 1..n |-> mem[addr + i]]

eeprom_write_block(mem, src, addr, n) ==
    [a \in DOMAIN mem |->
        IF a > addr /\ a <= addr + n THEN src[a - addr] ELSE mem[a]]

\* The initialisers of ee_led1 and ee_led2.
ee_initial == <<3, 0, 255, 255>> \o <<3, 255, 0, 255>>

(***************************************************************************)
(* Helpers of main().                                                      *)
(***************************************************************************)
\* systick - last_button_press in unsigned long arithmetic.
Elapsed == ul_sub(systick, last_button_press)

Zero == LED_Data(0, 0, 0, 0)

\* *led
deref(ptr, l1, l2) == IF ptr = "led1" THEN l1 ELSE l2

\* A variant of the display update that sends the right record first.
main_update_exchanged ==
    LED_SOF \o led_data(led2) \o led_data(led1) \o LED_EOF

\* The display update at the top of the main loop.
main_update == LED_SOF \o led_data(led1) \o led_data(led2) \o LED_EOF

ReadyColor == led_status_color(LED_Status_Ready, LED_MIN_INTENSITY)
WarningColor == led_status_color(LED_Status_Warning, LED_MIN_INTENSITY)
ErrorColor == led_status_color(LED_Status_Error, LED_MIN_INTENSITY)

LeftRightAlt == BitOr(LED_Position_Left, LED_Position_Right_Alternating)
LeftRight == BitOr(LED_Position_Left, LED_Position_Right)

\* A variant of the dispatch test with the comparison turned round.
command_due_before(count, elapsed) ==
    count > 0 /\ ul_lt(elapsed, ulong(SWITCH_COMMAND_EXECUTE_MS))

\* if((switch_count > 0) && ((systick - last_button_press) >
\* SWITCH_COMMAND_EXECUTE_MS))
command_due(count, elapsed) ==
    count > 0 /\ ul_gt(elapsed, ulong(SWITCH_COMMAND_EXECUTE_MS))

\* execute_command = switch_count: unsigned int stored in an unsigned char.
command_of(count) == count % UCHAR_MOD

\* A variant of the long-hold test that includes the limit itself.
hold_timeout_at_limit(elapsed) ==
    ~ul_lt(elapsed, ulong(SWITCH_SYSTEM_OFF_TIME_MS))

\* if((systick - last_button_press) > SWITCH_SYSTEM_OFF_TIME_MS)
hold_timeout(elapsed) == ul_gt(elapsed, ulong(SWITCH_SYSTEM_OFF_TIME_MS))

\* while ((systick - last_button_press) < SWITCH_COMMAND_EXECUTE_MS)
select_again(elapsed) == ul_lt(elapsed, ulong(SWITCH_COMMAND_EXECUTE_MS))

\* The other channel.
toggle(pos) ==
    IF pos = LED_Position_Left THEN LED_Position_Right ELSE LED_Position_Left

\* A variant that saturates at LED_STOP_VALUE.
color_step_clamped(v) == IF v = LED_STOP_VALUE THEN v ELSE v + 1

\* led->red++ (and green, blue): an unsigned char increment.
color_step(v) == (v + 1) % UCHAR_MOD

\* A variant that wraps to LED_START_VALUE.
intensity_step_to_start(v) ==
    LET n == (v + 1) % UCHAR_MOD
    IN IF n > LED_MAX_INTENSITY THEN LED_START_VALUE ELSE n

\* led->intensity++; if(led->intensity > LED_MAX_INTENSITY)
\* led->intensity = LED_MIN_INTENSITY;
intensity_step(v) ==
    LET n == (v + 1) % UCHAR_MOD
    IN IF n > LED_MAX_INTENSITY THEN LED_MIN_INTENSITY ELSE n

\* A variant of the switch whose colour cases also reset the intensity.
adjusted_with_intensity(d, cmd) ==
    CASE cmd = 1 -> [d EXCEPT !.red = color_step(@),
                              !.intensity = LED_MIN_INTENSITY]
      [] cmd = 2 -> [d EXCEPT !.green = color_step(@),
                              !.intensity = LED_MIN_INTENSITY]
      [] cmd = 3 -> [d EXCEPT !.blue = color_step(@),
                              !.intensity = LED_MIN_INTENSITY]
      [] cmd = 4 -> [d EXCEPT !.intensity = intensity_step(@)]
      [] OTHER   -> d

\* A variant of the switch with the bodies of case 1 and case 2 exchanged.
adjusted_exchanged(d, cmd) ==
    CASE cmd = 1 -> [d EXCEPT !.green = color_step(@)]
      [] cmd = 2 -> [d EXCEPT !.red = color_step(@)]
      [] cmd = 3 -> [d EXCEPT !.blue = color_step(@)]
      [] cmd = 4 -> [d EXCEPT !.intensity = intensity_step(@)]
      [] OTHER   -> d

\* One pass of the while loop of case cmd of switch (execute_command).
adjusted(d, cmd) ==
    CASE cmd = 1 -> [d EXCEPT !.red = color_step(@)]
      [] cmd = 2 -> [d EXCEPT !.green = color_step(@)]
      [] cmd = 3 -> [d EXCEPT !.blue = color_step(@)]
      [] cmd = 4 -> [d EXCEPT !.intensity = intensity_step(@)]
      [] OTHER   -> d

\* The cases of switch (execute_command) that run an adjustment loop.
Commands == 1..4

\* A variant of the write with the two EEPROM objects exchanged.
persisted_exchanged(mem, pos, l1, l2) ==
    IF ~ENABLE_EEPROM_WRITE THEN mem
    ELSE IF pos = LED_Position_Left
         THEN eeprom_write_block(mem, LED_Data_bytes(l1), ee_led2,
                                 sizeof_LED_Data)
         ELSE eeprom_write_block(mem, LED_Data_bytes(l2), ee_led1,
                                 sizeof_LED_Data)

\* The EEPROM after the write at the end of the command block.
persisted(mem, pos, l1, l2) ==
    IF ~ENABLE_EEPROM_WRITE THEN mem
    ELSE IF pos = LED_Position_Left
         THEN eeprom_write_block(mem, LED_Data_bytes(l1), ee_led1,
                                 sizeof_LED_Data)
         ELSE eeprom_write_block(mem, LED_Data_bytes(l2), ee_led2,
                                 sizeof_LED_Data)

\* eeprom_read_block(&led1, &ee_led1, sizeof(LED_Data)) and the same for led2.
loaded(mem, addr) ==
    LED_Data_struct(eeprom_read_block(mem, addr, sizeof_LED_Data))

\* A call of the LED library: the function, its arguments, the loop
\* counter i of led_blink, whether it has returned, and for led_status_color
\* its arguments status and intensity (color is then the value returned).
Call(fn, pos, color, delay, repeat, i, returned, status, intensity) ==
    [fn |-> fn, position |-> pos, color |-> color, delay |-> delay,
     repeat |-> repeat, i |-> i, returned |-> returned, status |-> status,
     intensity |-> intensity]

\* main() makes its library calls inside its own steps.
NoCall == Call("none", LED_Position_None, LED_Data(0, 0, 0, 0), 0, 0, 0,
               TRUE, LED_Status_None, 0)

(***************************************************************************)
(* Initial state: entry of main() after reset, RAM cleared.                *)
(***************************************************************************)
Init ==
    /\ pc = "boot"
    /\ button = FALSE
    /\ systick = ulong(0)
    /\ last_button_press = ulong(0)
    /\ switch_count = 0
    /\ execute_command = 0
    /\ position = LED_Position_None
    /\ led = "null"
    /\ led1 = Zero
    /\ led2 = Zero
    /\ eeprom = ee_initial
    /\ wire = <<>>
    /\ nvm_op = "none"
    /\ timer = FALSE
    /\ adc = FALSE
    /\ spi = FALSE
    /\ spi_master = FALSE
    /\ pin7_isc = "INTDISABLE"
    /\ budget = MaxAdjust
    /\ ticks = MaxTicks
    /\ presses = 0
    /\ call = NoCall
    /\ spi_if = FALSE
    /\ spi_status = <<>>
    /\ rd = <<>>
    /\ since = 0

(***************************************************************************)
(* Environment: the tick interrupt and the push-button.                    *)
(***************************************************************************)
\* ISR(TCA0_OVF_vect), TickStep overflows in a row.
Tick ==
    /\ timer
    /\ ticks > 0
    /\ ticks' = ticks - 1
    /\ systick' = ul_add(systick, ulong(TickStep))
    /\ since' = since + TickStep
    /\ UNCHANGED <<pc, button, last_button_press, switch_count,
                   execute_command, position, led, led1, led2, eeprom, wire,
                   nvm_op, timer, adc, spi, spi_master, pin7_isc, budget,
                   presses, call, spi_if, spi_status, rd>>

Press ==
    /\ pc # "sleep"
    /\ ~button
    /\ button' = TRUE
    /\ presses' = IF pc = "select" THEN (presses + 1) % 2 ELSE presses
    /\ UNCHANGED <<pc, systick, last_button_press, switch_count,
                   execute_command, position, led, led1, led2, eeprom, wire,
                   nvm_op, timer, adc, spi, spi_master, pin7_isc, budget,
                   ticks, call, spi_if, spi_status, rd, since>>

Release ==
    /\ pc # "sleep"
    /\ button
    /\ button' = FALSE
    /\ UNCHANGED <<pc, systick, last_button_press, switch_count,
                   execute_command, position, led, led1, led2, eeprom, wire,
                   nvm_op, timer, adc, spi, spi_master, pin7_isc, budget,
                   ticks, presses, call, spi_if, spi_status, rd, since>>

(***************************************************************************)
(* main(): start-up.                                                       *)
(***************************************************************************)
Boot ==
    /\ pc = "boot"
    /\ \E status \in {BATTERY_Ok, BATTERY_Fault} :
          wire' = led_init
                  \o led_blink(LeftRightAlt,
                               IF status = BATTERY_Ok THEN ReadyColor
                                                      ELSE ErrorColor,
                               LED_Delay_MS_200, 2)
    /\ spi' = TRUE
    /\ spi_master' = TRUE
    /\ adc' = FALSE
    /\ timer' = TRUE
    /\ led1' = loaded(eeprom, ee_led1)
    /\ led2' = loaded(eeprom, ee_led2)
    /\ nvm_op' = "read"
    /\ pc' = "loop"
    /\ UNCHANGED <<button, systick, last_button_press, switch_count,
                   execute_command, position, led, eeprom, pin7_isc, budget,
                   ticks, presses, call, spi_if, spi_status, rd, since>>

(***************************************************************************)
(* main(): the top of the loop, the press handler and the hold loop.       *)
(***************************************************************************)
\* The display update, then if(PORTA.IN & SWITCH) taken: blink, count the
\* press, record its tick.
LoopPress ==
    /\ pc = "loop"
    /\ button
    /\ switch_count < MaxClicks
    /\ wire' = main_update
               \o led_blink(LeftRightAlt, ReadyColor, LED_Delay_MS_100, 0)
    /\ switch_count' = (switch_count + 1) % UINT_MOD
    /\ last_button_press' = systick
    /\ nvm_op' = "none"
    /\ pc' = "hold"
    /\ since' = 0
    /\ UNCHANGED <<button, systick, execute_command, position, led, led1,
                   led2, eeprom, timer, adc, spi, spi_master, pin7_isc,
                   budget, ticks, presses, call, spi_if, spi_status, rd>>

\* The display update, then if(PORTA.IN & SWITCH) not taken.
LoopIdle ==
    /\ pc = "loop"
    /\ ~button
    /\ wire' = main_update
    /\ nvm_op' = "none"
    /\ pc' = "dispatch"
    /\ UNCHANGED <<button, systick, last_button_press, switch_count,
                   execute_command, position, led, led1, led2, eeprom, timer,
                   adc, spi, spi_master, pin7_isc, budget, ticks, presses,
                   call, spi_if, spi_status, rd, since>>

\* A variant of the hold loop that tests the timeout only on the first click.
HoldPoll_first ==
    /\ pc = "hold"
    /\ pc' = IF ~button THEN "dispatch"
             ELSE IF switch_count = 1 /\ hold_timeout(Elapsed)
                  THEN "blink_ready"
             ELSE "hold"
    /\ wire' = <<>>
    /\ nvm_op' = "none"
    /\ UNCHANGED <<button, systick, last_button_press, switch_count,
                   execute_command, position, led, led1, led2, eeprom, timer,
                   adc, spi, spi_master, pin7_isc, budget, ticks, presses,
                   call, spi_if, spi_status, rd, since>>

\* One test of while(PORTA.IN & SWITCH) and of the long-hold timeout.
HoldPoll ==
    /\ pc = "hold"
    /\ pc' = IF ~button THEN "dispatch"
             ELSE IF hold_timeout(Elapsed) THEN "blink_ready"
             ELSE "hold"
    /\ wire' = <<>>
    /\ nvm_op' = "none"
    /\ UNCHANGED <<button, systick, last_button_press, switch_count,
                   execute_command, position, led, led1, led2, eeprom, timer,
                   adc, spi, spi_master, pin7_isc, budget, ticks, presses,
                   call, spi_if, spi_status, rd, since>>

(***************************************************************************)
(* main(): the power-down path and system_shutdown().                      *)
(***************************************************************************)
ShutdownBlink ==
    /\ pc \in {"blink_ready", "blink_warning", "blink_error"}
    /\ wire' = led_blink(LeftRightAlt,
                         CASE pc = "blink_ready"   -> ReadyColor
                           [] pc = "blink_warning" -> WarningColor
                           [] pc = "blink_error"   -> ErrorColor,
                         LED_Delay_MS_500, 0)
    /\ pc' = CASE pc = "blink_ready"   -> "blink_warning"
               [] pc = "blink_warning" -> "blink_error"
               [] pc = "blink_error"   -> "shutdown"
    /\ nvm_op' = "none"
    /\ UNCHANGED <<button, systick, last_button_press, switch_count,
                   execute_command, position, led, led1, led2, eeprom, timer,
                   adc, spi, spi_master, pin7_isc, budget, ticks, presses,
                   call, spi_if, spi_status, rd, since>>

\* A variant of the order of system_shutdown() without led_disable().
shutdown_next_no_led(p) ==
    CASE p = "shutdown"         -> "shutdown_battery"
      [] p = "shutdown_battery" -> "shutdown_pin"
      [] p = "shutdown_led"     -> "shutdown_pin"
      [] p = "shutdown_pin"     -> "sleep"

\* The order of system_shutdown(): timer_disable() at "shutdown", then
\* battery_disable(), led_disable(), the configuration of PORTA, sleep.
shutdown_next(p) ==
    CASE p = "shutdown"         -> "shutdown_battery"
      [] p = "shutdown_battery" -> "shutdown_led"
      [] p = "shutdown_led"     -> "shutdown_pin"
      [] p = "shutdown_pin"     -> "sleep"

\* system_shutdown() up to sleep_cpu(), one statement group per step.
SystemShutdown ==
    /\ pc \in {"shutdown", "shutdown_battery", "shutdown_led",
                "shutdown_pin"}
    /\ timer' = IF pc = "shutdown" THEN FALSE ELSE timer
    /\ adc' = IF pc = "shutdown_battery" THEN FALSE ELSE adc
    /\ wire' = IF pc = "shutdown_led" THEN led_disable ELSE <<>>
    /\ spi' = IF pc = "shutdown_led" THEN FALSE ELSE spi
    /\ spi_master' = IF pc = "shutdown_led" THEN FALSE ELSE spi_master
    /\ pin7_isc' = IF pc = "shutdown_pin" THEN "BOTHEDGES" ELSE pin7_isc
    /\ nvm_op' = "none"
    /\ pc' = shutdown_next(pc)
    /\ UNCHANGED <<button, systick, last_button_press, switch_count,
                   execute_command, position, led, led1, led2, eeprom, budget,
                   ticks, presses, call, spi_if, spi_status, rd, since>>

\* A wake-up that resumes main() where it slept instead of resetting.
Wake_resume ==
    /\ pc = "sleep"
    /\ pin7_isc = "BOTHEDGES"
    /\ button' = ~button
    /\ pc' = "loop"
    /\ timer' = TRUE
    /\ pin7_isc' = "INTDISABLE"
    /\ ticks' = MaxTicks
    /\ UNCHANGED <<systick, last_button_press, switch_count, execute_command,
                   position, led, led1, led2, eeprom, wire, nvm_op, adc, spi,
                   spi_master, budget, presses, call, spi_if, spi_status, rd,
                   since>>

\* An edge on the button pin wakes the CPU; system_shutdown() then resets
\* the device and the start-up code clears the RAM.
Wake ==
    /\ pc = "sleep"
    /\ pin7_isc = "BOTHEDGES"
    /\ button' = ~button
    /\ pc' = "boot"
    /\ systick' = ulong(0)
    /\ last_button_press' = ulong(0)
    /\ switch_count' = 0
    /\ execute_command' = 0
    /\ position' = LED_Position_None
    /\ led' = "null"
    /\ led1' = Zero
    /\ led2' = Zero
    /\ wire' = <<>>
    /\ nvm_op' = "none"
    /\ timer' = FALSE
    /\ adc' = FALSE
    /\ spi' = FALSE
    /\ spi_master' = FALSE
    /\ pin7_isc' = "INTDISABLE"
    /\ ticks' = MaxTicks
    /\ since' = 0
    /\ UNCHANGED <<eeprom, budget, presses, call, spi_if, spi_status, rd>>

(***************************************************************************)
(* main(): dispatch, channel selection, session, persistence.              *)
(***************************************************************************)
\* The dispatch test, and if(execute_command) with the locals of its block.
Dispatch ==
    /\ pc = "dispatch"
    /\ LET due == command_due(switch_count, Elapsed)
           cmd == IF due THEN command_of(switch_count) ELSE execute_command
       IN /\ execute_command' = cmd
          /\ switch_count' = IF due THEN 0 ELSE switch_count
          /\ pc' = IF cmd # 0 THEN "select" ELSE "loop"
          /\ position' = IF cmd # 0 THEN LED_Position_Left ELSE position
          /\ presses' = IF cmd # 0 /\ button THEN 1 ELSE 0
    /\ wire' = <<>>
    /\ nvm_op' = "none"
    /\ UNCHANGED <<button, systick, last_button_press, led, led1, led2,
                   eeprom, timer, adc, spi, spi_master, pin7_isc, budget,
                   ticks, call, spi_if, spi_status, rd, since>>

\* One pass of the do-while loop that selects the channel.
SelectIter ==
    /\ pc = "select"
    /\ led' = IF position = LED_Position_Left THEN "led1" ELSE "led2"
    /\ wire' = led_blink(position, ReadyColor, LED_Delay_MS_500, 1)
    /\ position' = IF button THEN toggle(position) ELSE position
    /\ last_button_press' = IF button THEN systick ELSE last_button_press
    /\ pc' = IF select_again(ul_sub(systick, last_button_press'))
             THEN "select" ELSE "adjust"
    /\ nvm_op' = "none"
    /\ since' = IF button THEN 0 ELSE since
    /\ UNCHANGED <<button, systick, switch_count, execute_command, led1, led2,
                   eeprom, timer, adc, spi, spi_master, pin7_isc, budget,
                   ticks, presses, call, spi_if, spi_status, rd>>

\* One pass of the while(!(PORTA.IN & SWITCH)) loop of cases 1 to 4.
AdjustIter ==
    /\ pc = "adjust"
    /\ execute_command \in Commands
    /\ ~button
    /\ budget > 0
    /\ budget' = budget - 1
    /\ led1' = IF led = "led1" THEN adjusted(led1, execute_command) ELSE led1
    /\ led2' = IF led = "led1" THEN led2 ELSE adjusted(led2, execute_command)
    /\ wire' = led_color(position, deref(led, led1', led2'))
    /\ nvm_op' = "none"
    /\ UNCHANGED <<pc, button, systick, last_button_press, switch_count,
                   execute_command, position, led, eeprom, timer, adc, spi,
                   spi_master, pin7_isc, ticks, presses, call, spi_if,
                   spi_status, rd, since>>

\* A variant of the loop exit that does not look at the button.
AdjustExit_any ==
    /\ pc = "adjust"
    /\ execute_command \in Commands
    /\ pc' = "persist"
    /\ wire' = <<>>
    /\ nvm_op' = "none"
    /\ UNCHANGED <<button, systick, last_button_press, switch_count,
                   execute_command, position, led, led1, led2, eeprom, timer,
                   adc, spi, spi_master, pin7_isc, budget, ticks, presses,
                   call, spi_if, spi_status, rd, since>>

\* The loop of cases 1 to 4 ends on a pressed button.
AdjustExit ==
    /\ pc = "adjust"
    /\ execute_command \in Commands
    /\ button
    /\ pc' = "persist"
    /\ wire' = <<>>
    /\ nvm_op' = "none"
    /\ UNCHANGED <<button, systick, last_button_press, switch_count,
                   execute_command, position, led, led1, led2, eeprom, timer,
                   adc, spi, spi_master, pin7_isc, budget, ticks, presses,
                   call, spi_if, spi_status, rd, since>>

\* A variant in which the unknown gesture resets the device.
UnknownCommand_reset ==
    /\ pc = "adjust"
    /\ execute_command \notin Commands
    /\ wire' = led_blink(LeftRight, ErrorColor, LED_Delay_MS_500, 4)
    /\ pc' = "boot"
    /\ nvm_op' = "none"
    /\ UNCHANGED <<button, systick, last_button_press, switch_count,
                   execute_command, position, led, led1, led2, eeprom, timer,
                   adc, spi, spi_master, pin7_isc, budget, ticks, presses,
                   call, spi_if, spi_status, rd, since>>

\* default: of switch (execute_command).
UnknownCommand ==
    /\ pc = "adjust"
    /\ execute_command \notin Commands
    /\ wire' = led_blink(LeftRight, ErrorColor, LED_Delay_MS_500, 4)
    /\ pc' = "persist"
    /\ nvm_op' = "none"
    /\ UNCHANGED <<button, systick, last_button_press, switch_count,
                   execute_command, position, led, led1, led2, eeprom, timer,
                   adc, spi, spi_master, pin7_isc, budget, ticks, presses,
                   call, spi_if, spi_status, rd, since>>

\* #ifdef ENABLE_EEPROM_WRITE ... #endif
Persist ==
    /\ pc = "persist"
    /\ eeprom' = persisted(eeprom, position, led1, led2)
    /\ nvm_op' = IF ENABLE_EEPROM_WRITE THEN "write" ELSE "none"
    /\ wire' = <<>>
    /\ pc' = "confirm"
    /\ UNCHANGED <<button, systick, last_button_press, switch_count,
                   execute_command, position, led, led1, led2, timer, adc,
                   spi, spi_master, pin7_isc, budget, ticks, presses, call,
                   spi_if, spi_status, rd, since>>

\* The confirmation blink, the two resets and the end of the block (its
\* locals go out of scope).
\* A variant in which a button still held after the confirmation starts the
\* shutdown.
Confirm_hold ==
    /\ pc = "confirm"
    /\ wire' = led_blink(LeftRightAlt, ReadyColor, LED_Delay_MS_500, 2)
    /\ execute_command' = 0
    /\ switch_count' = 0
    /\ position' = LED_Position_None
    /\ led' = "null"
    /\ nvm_op' = "none"
    /\ pc' = IF button THEN "blink_ready" ELSE "loop"
    /\ presses' = 0
    /\ UNCHANGED <<button, systick, last_button_press, led1, led2, eeprom,
                   timer, adc, spi, spi_master, pin7_isc, budget, ticks, call,
                   spi_if, spi_status, rd, since>>

Confirm ==
    /\ pc = "confirm"
    /\ wire' = led_blink(LeftRightAlt, ReadyColor, LED_Delay_MS_500, 2)
    /\ execute_command' = 0
    /\ switch_count' = 0
    /\ position' = LED_Position_None
    /\ led' = "null"
    /\ nvm_op' = "none"
    /\ pc' = "loop"
    /\ presses' = 0
    /\ UNCHANGED <<button, systick, last_button_press, led1, led2, eeprom,
                   timer, adc, spi, spi_master, pin7_isc, budget, ticks, call,
                   spi_if, spi_status, rd, since>>

Next ==
    \/ Tick
    \/ Press
    \/ Release
    \/ Boot
    \/ LoopPress
    \/ LoopIdle
    \/ HoldPoll
    \/ ShutdownBlink
    \/ SystemShutdown
    \/ Wake
    \/ Dispatch
    \/ SelectIter
    \/ AdjustIter
    \/ AdjustExit
    \/ UnknownCommand
    \/ Persist
    \/ Confirm

Spec == Init /\ [][Next]_vars

(***************************************************************************)
(* Counting on its own: main() followed from the start-up to the dispatch  *)
(* of a command or to the long-hold timeout.  The CPU goes on executing    *)
(* main(), and the timer, while it is enabled, goes on overflowing;        *)
(* nothing is required of the button.                                      *)
(***************************************************************************)
\* The step main() is at.
CountingStep ==
    \/ Boot
    \/ LoopPress
    \/ LoopIdle
    \/ HoldPoll
    \/ Dispatch

NextCounting ==
    \/ Tick
    \/ Press
    \/ Release
    \/ CountingStep

SpecFair ==
    /\ Init
    /\ [][NextCounting]_vars
    /\ WF_vars(CountingStep)
    /\ WF_vars(Tick)

(***************************************************************************)
(* Gestures of many clicks.  The firmware is started in the state it has   *)
(* at the top of the main loop after a boot and n counted presses, the     *)
(* button released since the last of them, for some click counts n that    *)
(* the press handler of Spec is not followed to.                           *)
(***************************************************************************)
ClickCounts == {4, 5, 255, 256, 257, 260, 65535}

\* The peripherals and the model's budgets while the main loop runs.
Running ==
    /\ nvm_op = "none"
    /\ timer = TRUE
    /\ adc = FALSE
    /\ spi = TRUE
    /\ spi_master = TRUE
    /\ pin7_isc = "INTDISABLE"
    /\ budget = MaxAdjust
    /\ call = NoCall
    /\ spi_if = FALSE
    /\ spi_status = <<>>
    /\ rd = <<>>

InitClicks ==
    /\ pc = "loop"
    /\ button = FALSE
    /\ switch_count \in ClickCounts
    \* each counted press takes at least the blink of the press handler
    /\ systick = ulong(switch_count * led_blink_ms(LED_Delay_MS_100, 0))
    /\ last_button_press = systick
    /\ since = 0
    /\ execute_command = 0
    /\ position = LED_Position_None
    /\ led = "null"
    /\ eeprom = ee_initial
    /\ led1 = loaded(eeprom, ee_led1)
    /\ led2 = loaded(eeprom, ee_led2)
    /\ wire = led_blink(LeftRightAlt, ReadyColor, LED_Delay_MS_100, 0)
    /\ Running
    /\ ticks = MaxTicks
    /\ presses = 0

SpecClicks == InitClicks /\ [][Next]_vars

(***************************************************************************)
(* Sessions on arbitrary stored values.  The EEPROM is loaded as it is, so *)
(* a record can hold any byte; the firmware is started at the entry of the *)
(* adjustment loop of a command on a channel whose adjusted attribute      *)
(* holds any byte, and followed to the end of the command block.           *)
(***************************************************************************)
Byte == 0..(UCHAR_MOD - 1)

\* The initialiser of a record with the attribute of command cmd set to v.
with_attribute(bytes, cmd, v) ==
    CASE cmd = 1 -> [bytes EXCEPT ![2] = v]
      [] cmd = 2 -> [bytes EXCEPT ![3] = v]
      [] cmd = 3 -> [bytes EXCEPT ![4] = v]
      [] cmd = 4 -> [bytes EXCEPT ![1] = v]

InitSession ==
    /\ pc = "adjust"
    /\ button = FALSE
    /\ switch_count = 0
    /\ execute_command \in Commands
    /\ position \in {LED_Position_Left, LED_Position_Right}
    /\ led = IF position = LED_Position_Left THEN "led1" ELSE "led2"
    \* left: dispatched 3 tick batches after the press, no toggle;
    \* right: one toggle then, and the window after it
    /\ last_button_press = IF position = LED_Position_Left
                           THEN ulong(0) ELSE ulong(3 * TickStep)
    /\ systick = IF position = LED_Position_Left
                 THEN ulong(3 * TickStep) ELSE ulong(5 * TickStep)
    /\ since = IF position = LED_Position_Left
               THEN 3 * TickStep ELSE 2 * TickStep
    /\ \E v \in Byte :
          eeprom = IF position = LED_Position_Left
                   THEN with_attribute(SubSeq(ee_initial, 1, 4),
                                       execute_command, v)
                        \o SubSeq(ee_initial, 5, 8)
                   ELSE SubSeq(ee_initial, 1, 4)
                        \o with_attribute(SubSeq(ee_initial, 5, 8),
                                          execute_command, v)
    /\ led1 = loaded(eeprom, ee_led1)
    /\ led2 = loaded(eeprom, ee_led2)
    /\ wire = led_blink(position, ReadyColor, LED_Delay_MS_500, 1)
    /\ Running
    /\ ticks = 0
    /\ presses = IF position = LED_Position_Left THEN 0 ELSE 1

NextSession ==
    \/ Press
    \/ Release
    \/ AdjustIter
    \/ AdjustExit
    \/ Persist
    \/ Confirm

SpecSession == InitSession /\ [][NextSession]_vars

(***************************************************************************)
(* The press that ends a session, followed while it is held.  The firmware *)
(* is started at the entry of an adjustment loop with the button just      *)
(* pressed; the button can only be released, so every pressed reading of   *)
(* the button is a reading of that one press.  The run is followed until   *)
(* the long-hold timeout starts the shutdown.                              *)
(***************************************************************************)
InitHeld ==
    /\ pc = "adjust"
    /\ button = TRUE
    /\ switch_count = 0
    /\ execute_command \in Commands
    /\ position \in {LED_Position_Left, LED_Position_Right}
    /\ led = IF position = LED_Position_Left THEN "led1" ELSE "led2"
    /\ last_button_press = IF position = LED_Position_Left
                           THEN ulong(0) ELSE ulong(3 * TickStep)
    /\ systick = IF position = LED_Position_Left
                 THEN ulong(3 * TickStep) ELSE ulong(5 * TickStep)
    /\ since = IF position = LED_Position_Left
               THEN 3 * TickStep ELSE 2 * TickStep
    /\ eeprom = ee_initial
    /\ led1 = loaded(eeprom, ee_led1)
    /\ led2 = loaded(eeprom, ee_led2)
    /\ wire = led_blink(position, ReadyColor, LED_Delay_MS_500, 1)
    /\ Running
    /\ ticks = MaxTicks
    /\ presses = IF position = LED_Position_Left THEN 0 ELSE 1

NextHeld ==
    \/ Tick
    \/ Release
    \/ AdjustExit
    \/ Persist
    \/ Confirm
    \/ LoopPress
    \/ LoopIdle
    \/ HoldPoll
    \/ Dispatch
    \/ SelectIter
    \/ AdjustIter

SpecHeld == InitHeld /\ [][NextHeld]_vars

(***************************************************************************)
(* The reads of systick byte by byte.  systick is a volatile unsigned long *)
(* and the CPU loads one byte per instruction with interrupts enabled, so  *)
(* ISR(TCA0_OVF_vect) can run between two loads of one read.  The order of *)
(* the loads is the compiler's: each read starts at either end.  The       *)
(* interrupt is followed one overflow at a time, from a state of the       *)
(* press-hold loop some milliseconds after a press, with the counter near  *)
(* a carry of its low byte or near its wrap.                               *)
(***************************************************************************)
\* last_button_press of the press in progress: before a carry of the low
\* byte, and SWITCH_SYSTEM_OFF_TIME_MS - 1 before the wrap of the counter.
PressTicks ==
    {ulong(UCHAR_MOD - 2),
     ul_not(ulong(SWITCH_SYSTEM_OFF_TIME_MS - 2))}

\* Milliseconds the button has been held since.
HeldFor == {0, SWITCH_SYSTEM_OFF_TIME_MS - 3}

InitTimer ==
    /\ pc = "hold"
    /\ button = TRUE
    /\ switch_count \in {1, MaxClicks}
    /\ last_button_press \in PressTicks
    /\ since \in HeldFor
    /\ systick = ul_add(last_button_press, ulong(since))
    /\ execute_command = 0
    /\ position = LED_Position_None
    /\ led = "null"
    /\ eeprom = ee_initial
    /\ led1 = loaded(eeprom, ee_led1)
    /\ led2 = loaded(eeprom, ee_led2)
    /\ wire = <<>>
    /\ Running
    /\ ticks = MaxTicks
    /\ presses = 0

\* A variant of the interrupt handler that counts by two.
systick_inc_two(t) == ul_add(t, ulong(2))

\* systick++
systick_inc(t) == ul_add(t, ulong(1))

\* ISR(TCA0_OVF_vect), one overflow.
TCA0_OVF ==
    /\ timer
    /\ ticks > 0
    /\ ticks' = ticks - 1
    /\ systick' = systick_inc(systick)
    /\ since' = since + 1
    /\ UNCHANGED <<pc, button, last_button_press, switch_count,
                   execute_command, position, led, led1, led2, eeprom, wire,
                   nvm_op, timer, adc, spi, spi_master, pin7_isc, budget,
                   presses, call, spi_if, spi_status, rd>>

\* The positions of main() in which a read of systick is in progress.
Reading ==
    {"press_read", "hold_read", "dispatch_read", "select_store_read",
     "select_test_read"}

\* The index of the byte the next load instruction of a read takes.
next_byte(r) ==
    IF r[1].index = 1 THEN Len(r) + 1 ELSE sizeof_ulong - Len(r)

\* The unsigned long assembled from the bytes loaded.
assembled(r) ==
    [i \in 1..sizeof_ulong |->
        r[CHOOSE k \in 1..Len(r) : r[k].index = i].byte]

\* One load instruction of a read of systick: a byte of the counter as it
\* is now; begun records the whole counter at the first load.
LoadByte ==
    /\ pc \in Reading
    /\ Len(rd) < sizeof_ulong
    /\ \/ /\ rd = <<>>
          /\ \E i \in {1, sizeof_ulong} :
                rd' = <<[index |-> i, byte |-> systick[i],
                         begun |-> systick]>>
       \/ /\ rd # <<>>
          /\ rd' = Append(rd, [index |-> next_byte(rd),
                               byte |-> systick[next_byte(rd)]])
    /\ UNCHANGED <<pc, button, systick, last_button_press, switch_count,
                   execute_command, position, led, led1, led2, eeprom, wire,
                   nvm_op, timer, adc, spi, spi_master, pin7_isc, budget,
                   ticks, presses, call, spi_if, spi_status, since>>

\* The display update, if(PORTA.IN & SWITCH) taken, the blink and
\* switch_count++; the read of last_button_press = systick begins.
PressLoad ==
    /\ pc = "loop"
    /\ button
    /\ switch_count < MaxClicks
    /\ wire' = main_update
               \o led_blink(LeftRightAlt, ReadyColor, LED_Delay_MS_100, 0)
    /\ switch_count' = (switch_count + 1) % UINT_MOD
    /\ rd' = <<>>
    /\ nvm_op' = "none"
    /\ pc' = "press_read"
    /\ UNCHANGED <<button, systick, last_button_press, execute_command,
                   position, led, led1, led2, eeprom, timer, adc, spi,
                   spi_master, pin7_isc, budget, ticks, presses, call, spi_if,
                   spi_status, since>>

\* last_button_press = systick, the store of the value read.
PressStore ==
    /\ pc = "press_read"
    /\ Len(rd) = sizeof_ulong
    /\ last_button_press' = assembled(rd)
    /\ since' = 0
    /\ rd' = <<>>
    /\ wire' = <<>>
    /\ pc' = "hold"
    /\ UNCHANGED <<button, systick, switch_count, execute_command, position,
                   led, led1, led2, eeprom, nvm_op, timer, adc, spi,
                   spi_master, pin7_isc, budget, ticks, presses, call, spi_if,
                   spi_status>>

\* while(PORTA.IN & SWITCH): left when the button is released, else the
\* read of systick for the long-hold test begins.
HoldLoad ==
    /\ pc = "hold"
    /\ pc' = IF ~button THEN "dispatch" ELSE "hold_read"
    /\ rd' = <<>>
    /\ wire' = <<>>
    /\ nvm_op' = "none"
    /\ UNCHANGED <<button, systick, last_button_press, switch_count,
                   execute_command, position, led, led1, led2, eeprom, timer,
                   adc, spi, spi_master, pin7_isc, budget, ticks, presses,
                   call, spi_if, spi_status, since>>

\* if((systick - last_button_press) > SWITCH_SYSTEM_OFF_TIME_MS) on the
\* value read.
HoldTest ==
    /\ pc = "hold_read"
    /\ Len(rd) = sizeof_ulong
    /\ pc' = IF hold_timeout(ul_sub(assembled(rd), last_button_press))
             THEN "blink_ready" ELSE "hold"
    /\ rd' = <<>>
    /\ UNCHANGED <<button, systick, last_button_press, switch_count,
                   execute_command, position, led, led1, led2, eeprom, wire,
                   nvm_op, timer, adc, spi, spi_master, pin7_isc, budget,
                   ticks, presses, call, spi_if, spi_status, since>>

\* if((switch_count > 0) && ...): the read of systick begins when the
\* first operand is true; otherwise if(execute_command), which is 0.
DispatchLoad ==
    /\ pc = "dispatch"
    /\ pc' = IF switch_count > 0 THEN "dispatch_read" ELSE "loop"
    /\ rd' = <<>>
    /\ wire' = <<>>
    /\ nvm_op' = "none"
    /\ UNCHANGED <<button, systick, last_button_press, switch_count,
                   execute_command, position, led, led1, led2, eeprom, timer,
                   adc, spi, spi_master, pin7_isc, budget, ticks, presses,
                   call, spi_if, spi_status, since>>

\* The dispatch test on the value read, and if(execute_command) with the
\* locals of its block.
DispatchTest ==
    /\ pc = "dispatch_read"
    /\ Len(rd) = sizeof_ulong
    /\ LET due == command_due(switch_count,
                              ul_sub(assembled(rd), last_button_press))
           cmd == IF due THEN command_of(switch_count) ELSE execute_command
       IN /\ execute_command' = cmd
          /\ switch_count' = IF due THEN 0 ELSE switch_count
          /\ pc' = IF cmd # 0 THEN "select" ELSE "loop"
          /\ position' = IF cmd # 0 THEN LED_Position_Left ELSE position
          /\ presses' = IF cmd # 0 /\ button THEN 1 ELSE 0
    /\ rd' = <<>>
    /\ UNCHANGED <<button, systick, last_button_press, led, led1, led2,
                   eeprom, wire, nvm_op, timer, adc, spi, spi_master,
                   pin7_isc, budget, ticks, call, spi_if, spi_status, since>>

NextTimer ==
    \/ TCA0_OVF
    \/ Press
    \/ Release
    \/ Boot
    \/ LoopIdle
    \/ PressLoad
    \/ LoadByte
    \/ PressStore
    \/ HoldLoad
    \/ HoldTest
    \/ DispatchLoad
    \/ DispatchTest
    \/ ShutdownBlink
    \/ SystemShutdown
    \/ Wake
    \/ SelectIter
    \/ AdjustIter
    \/ AdjustExit
    \/ UnknownCommand
    \/ Persist
    \/ Confirm

SpecTimer == InitTimer /\ [][NextTimer]_vars

(***************************************************************************)
(* The channel selection with the reads of systick taken byte by byte.    *)
(* The firmware is started at the entry of the selection loop of a        *)
(* command, a little before the low bytes of the counter carry, and       *)
(* followed to the end of the command block.                              *)
(***************************************************************************)
\* Values of the counter two ticks before a carry out of its low 16 bits
\* and out of its low 8 bits.
SelectTicks == {ulong(UINT_MOD - 2), ulong(UINT_MOD + UCHAR_MOD - 2)}

InitSelect ==
    /\ pc = "select"
    /\ button \in BOOLEAN
    /\ switch_count = 0
    /\ execute_command \in Commands
    /\ position = LED_Position_Left
    /\ led = "null"
    /\ systick \in SelectTicks
    \* the command was dispatched when the window after the last press ended
    /\ since = SWITCH_COMMAND_EXECUTE_MS
    /\ last_button_press = ul_sub(systick, ulong(since))
    /\ eeprom = ee_initial
    /\ led1 = loaded(eeprom, ee_led1)
    /\ led2 = loaded(eeprom, ee_led2)
    /\ wire = <<>>
    /\ Running
    /\ ticks = MaxTicks
    /\ presses = IF button THEN 1 ELSE 0

\* One pass of the do-while loop up to the reads of systick: the pointer,
\* the blink, if(PORTA.IN & SWITCH) and the toggle; then the read of
\* last_button_press = systick begins, or that of the loop condition.
SelectLoad ==
    /\ pc = "select"
    /\ led' = IF position = LED_Position_Left THEN "led1" ELSE "led2"
    /\ wire' = led_blink(position, ReadyColor, LED_Delay_MS_500, 1)
    /\ position' = IF button THEN toggle(position) ELSE position
    /\ pc' = IF button THEN "select_store_read" ELSE "select_test_read"
    /\ rd' = <<>>
    /\ nvm_op' = "none"
    /\ UNCHANGED <<button, systick, last_button_press, switch_count,
                   execute_command, led1, led2, eeprom, timer, adc, spi,
                   spi_master, pin7_isc, budget, ticks, presses, call, spi_if,
                   spi_status, since>>

\* last_button_press = systick, the store of the value read; the read of
\* the loop condition begins.
SelectStore ==
    /\ pc = "select_store_read"
    /\ Len(rd) = sizeof_ulong
    /\ last_button_press' = assembled(rd)
    /\ since' = 0
    /\ rd' = <<>>
    /\ wire' = <<>>
    /\ pc' = "select_test_read"
    /\ UNCHANGED <<button, systick, switch_count, execute_command, position,
                   led, led1, led2, eeprom, nvm_op, timer, adc, spi,
                   spi_master, pin7_isc, budget, ticks, presses, call, spi_if,
                   spi_status>>

\* while ((systick - last_button_press) < SWITCH_COMMAND_EXECUTE_MS) on the
\* value read.
SelectTest ==
    /\ pc = "select_test_read"
    /\ Len(rd) = sizeof_ulong
    /\ pc' = IF select_again(ul_sub(assembled(rd), last_button_press))
             THEN "select" ELSE "adjust"
    /\ rd' = <<>>
    /\ wire' = <<>>
    /\ UNCHANGED <<button, systick, last_button_press, switch_count,
                   execute_command, position, led, led1, led2, eeprom, nvm_op,
                   timer, adc, spi, spi_master, pin7_isc, budget, ticks,
                   presses, call, spi_if, spi_status, since>>

NextSelect ==
    \/ TCA0_OVF
    \/ Press
    \/ Release
    \/ SelectLoad
    \/ LoadByte
    \/ SelectStore
    \/ SelectTest
    \/ AdjustIter
    \/ AdjustExit
    \/ Persist
    \/ Confirm

SpecSelect == InitSelect /\ [][NextSelect]_vars

(***************************************************************************)
(* The LED library on its own: a client makes one call of one function     *)
(* with arguments drawn from the sets below.  led_blink and led_disable     *)
(* are followed pass by pass of their loops.                                *)
(***************************************************************************)
\* Every combination of the four LED_Position flags.
Masks == 0..(2 * LED_Position_Right_Alternating - 1)

\* Every intensity byte with four colour triples.
LedColors ==
    {LED_Data(i, c[1], c[2], c[3]) :
        i \in Byte,
        c \in {<<0, 0, 0>>, <<255, 0, 1>>, <<1, 255, 128>>, <<18, 52, 86>>}}

BlinkColors == {ReadyColor, WarningColor, ErrorColor}

\* Repeat counts of led_blink, the largest unsigned char among them.
Repeats == {0, 1, 2, 4, UCHAR_MOD - 1}

\* The status values of the enumeration and one outside it.
Statuses == LED_Status_None..(LED_Status_Error + 1)

LedCalls ==
    {Call(fn, LED_Position_None, Zero, 0, 0, 0, FALSE, LED_Status_None, 0) :
        fn \in {"led_init", "leds_off", "led_disable"}}
    \cup {Call("led_data", LED_Position_None, c, 0, 0, 0, FALSE,
               LED_Status_None, 0) : c \in LedColors}
    \cup {Call("led_color", m, c, 0, 0, 0, FALSE, LED_Status_None, 0) :
              m \in Masks, c \in LedColors}
    \cup {Call("led_blink", m, c, d, r, 0, FALSE, LED_Status_None, 0) :
              m \in Masks, c \in BlinkColors,
              d \in {LED_Delay_MS_100, LED_Delay_MS_500}, r \in Repeats}
    \cup {Call("led_status_color", LED_Position_None, Zero, 0, 0, 0, FALSE,
               st, i) : st \in Statuses, i \in Byte}

\* The state of main() plays no part in a library call.
main_state == <<button, systick, last_button_press, switch_count,
                execute_command, position, led, led1, led2, eeprom, nvm_op,
                timer, adc, pin7_isc, budget, ticks, presses, spi_if,
                spi_status, rd, since>>

InitLed ==
    /\ pc = "call"
    /\ call \in LedCalls
    \* led_init() comes first: the SPI is enabled for every other function
    /\ spi = (call.fn # "led_init")
    /\ spi_master = spi
    /\ spi_if = FALSE
    /\ spi_status = <<>>
    /\ rd = <<>>
    /\ since = 0
    /\ wire = <<>>
    /\ button = FALSE
    /\ systick = ulong(0)
    /\ last_button_press = ulong(0)
    /\ switch_count = 0
    /\ execute_command = 0
    /\ position = LED_Position_None
    /\ led = "null"
    /\ led1 = Zero
    /\ led2 = Zero
    /\ eeprom = ee_initial
    /\ nvm_op = "none"
    /\ timer = FALSE
    /\ adc = FALSE
    /\ pin7_isc = "INTDISABLE"
    /\ budget = MaxAdjust
    /\ ticks = MaxTicks
    /\ presses = 0

\* The function returns.
Return ==
    /\ pc' = "return"
    /\ call' = [call EXCEPT !.returned = TRUE]
    /\ UNCHANGED main_state

Call_led_init ==
    /\ pc = "call"
    /\ call.fn = "led_init"
    /\ spi' = TRUE
    /\ spi_master' = TRUE
    /\ wire' = led_init
    /\ Return

Call_leds_off ==
    /\ pc = "call"
    /\ call.fn = "leds_off"
    /\ wire' = leds_off
    /\ UNCHANGED <<spi, spi_master>>
    /\ Return

Call_led_data ==
    /\ pc = "call"
    /\ call.fn = "led_data"
    /\ wire' = led_data(call.color)
    /\ UNCHANGED <<spi, spi_master>>
    /\ Return

Call_led_color ==
    /\ pc = "call"
    /\ call.fn = "led_color"
    /\ wire' = led_color(call.position, call.color)
    /\ UNCHANGED <<spi, spi_master>>
    /\ Return

Call_led_status_color ==
    /\ pc = "call"
    /\ call.fn = "led_status_color"
    /\ pc' = "return"
    /\ call' = [call EXCEPT
                   !.color = led_status_color(call.status, call.intensity),
                   !.returned = TRUE]
    /\ UNCHANGED <<wire, spi, spi_master>>
    /\ UNCHANGED main_state

\* A variant of the loop condition of led_blink: i < repeat.
blink_again_repeat(i, repeat) == i < repeat

\* i < (repeat + 1): i is an unsigned char, repeat + 1 is computed in int.
blink_again(i, repeat) == i < repeat + 1

\* One pass of the for loop of led_blink, with its i++.
Blink_cycle ==
    /\ pc = "call"
    /\ call.fn = "led_blink"
    /\ blink_again(call.i, call.repeat)
    /\ wire' = led_blink_cycle(call.position, call.color)
    /\ call' = [call EXCEPT !.i = (@ + 1) % UCHAR_MOD]
    /\ UNCHANGED <<pc, spi, spi_master>>
    /\ UNCHANGED main_state

\* The loop of led_blink has ended: leds_off() and return.
Blink_return ==
    /\ pc = "call"
    /\ call.fn = "led_blink"
    /\ ~blink_again(call.i, call.repeat)
    /\ wire' = leds_off
    /\ UNCHANGED <<spi, spi_master>>
    /\ Return

\* One pass of the outer loop of led_disable, with its j++ (kept in i).
Disable_cycle ==
    /\ pc = "call"
    /\ call.fn = "led_disable"
    /\ call.i < led_disable_passes
    /\ wire' = led_disable_cycle
    /\ call' = [call EXCEPT !.i = @ + 1]
    /\ UNCHANGED <<pc, spi, spi_master>>
    /\ UNCHANGED main_state

\* The loop of led_disable has ended: spi_disable() and return.
Disable_return ==
    /\ pc = "call"
    /\ call.fn = "led_disable"
    /\ ~(call.i < led_disable_passes)
    /\ wire' = <<>>
    /\ spi' = FALSE
    /\ spi_master' = FALSE
    /\ Return

NextLed ==
    \/ Call_led_init
    \/ Call_leds_off
    \/ Call_led_data
    \/ Call_led_color
    \/ Call_led_status_color
    \/ Blink_cycle
    \/ Blink_return
    \/ Disable_cycle
    \/ Disable_return

SpecLed == InitLed /\ [][NextLed]_vars

\* The firmware and, beside it, a client of the LED library.
InitDisplay == Init \/ InitLed

NextDisplay == Next \/ NextLed

SpecDisplay == InitDisplay /\ [][NextDisplay]_vars

\* A call of led_blink goes on: the loops of the library are not suspended
\* for ever.
SpecLedFair ==
    /\ SpecLed
    /\ WF_vars(Blink_cycle)
    /\ WF_vars(Blink_return)
    /\ WF_vars(Disable_cycle)
    /\ WF_vars(Disable_return)

(***************************************************************************)
(* spi.c under led_init(): spi_init() and the sixteen calls of             *)
(* spi_transfer(), register by register.  The peripheral sets the          *)
(* interrupt flag when a transfer it makes as a master is complete; while  *)
(* the select pin is an input, a low level on it sets the interrupt flag,  *)
(* with the master bit cleared by the peripheral or still set, the case    *)
(* spi_init() tests for.                                                   *)
(***************************************************************************)
InitSpi ==
    /\ pc = "spi_init"
    /\ button = FALSE
    /\ systick = ulong(0)
    /\ last_button_press = ulong(0)
    /\ switch_count = 0
    /\ execute_command = 0
    /\ position = LED_Position_None
    /\ led = "null"
    /\ led1 = Zero
    /\ led2 = Zero
    /\ eeprom = ee_initial
    /\ wire = <<>>
    /\ nvm_op = "none"
    /\ timer = FALSE
    /\ adc = FALSE
    /\ spi = FALSE
    /\ spi_master = FALSE
    /\ pin7_isc = "INTDISABLE"
    /\ budget = MaxAdjust
    /\ ticks = MaxTicks
    /\ presses = 0
    /\ call = Call("led_init", LED_Position_None, Zero, 0, 0, 0, FALSE,
                   LED_Status_None, 0)
    /\ spi_if = FALSE
    /\ spi_status = <<>>
    /\ rd = <<>>
    /\ since = 0

\* spi_init() up to SPI0.CTRLA |= SPI_ENABLE_bm.
Spi_init_enable ==
    /\ pc = "spi_init"
    /\ spi' = TRUE
    /\ spi_master' = TRUE
    /\ pc' = "spi_init_check"
    /\ UNCHANGED <<button, systick, last_button_press, switch_count,
                   execute_command, position, led, led1, led2, eeprom, wire,
                   nvm_op, timer, adc, pin7_isc, budget, ticks, presses, call,
                   spi_if, spi_status, rd, since>>

\* The select pin, an input with pull-up until spi_init() returns, is
\* driven low from outside.
SS_low ==
    /\ pc = "spi_init_check"
    /\ spi
    /\ spi_master
    /\ ~spi_if
    /\ spi_if' = TRUE
    /\ spi_master' \in BOOLEAN
    /\ UNCHANGED <<pc, button, systick, last_button_press, switch_count,
                   execute_command, position, led, led1, led2, eeprom, wire,
                   nvm_op, timer, adc, spi, pin7_isc, budget, ticks, presses,
                   call, spi_status, rd, since>>

\* if((SPI0.CTRLA & SPI_MASTER_bm) && (SPI0.INTFLAGS & SPI_IF_bm))
master_abort(master, flag) == master /\ flag

\* The rest of spi_init(): the test, then spi_disable() and return
\* SPI_Master_Abort, or return SPI_None; led_init() ignores the value.
Spi_init_return ==
    /\ pc = "spi_init_check"
    /\ IF master_abort(spi_master, spi_if)
       THEN /\ spi' = FALSE
            /\ spi_master' = FALSE
            /\ spi_if' = FALSE
            /\ spi_status' = <<SPI_Master_Abort>>
       ELSE /\ UNCHANGED <<spi, spi_master, spi_if>>
            /\ spi_status' = <<SPI_None>>
    /\ pc' = "led_init"
    /\ UNCHANGED <<button, systick, last_button_press, switch_count,
                   execute_command, position, led, led1, led2, eeprom, wire,
                   nvm_op, timer, adc, pin7_isc, budget, ticks, presses, call,
                   rd, since>>

\* spi_transfer(): SPI0.DATA = data, for the next byte of led_init(); a
\* master shifts it out.
Spi_transfer_write ==
    /\ pc = "led_init"
    /\ call.i < Len(led_init)
    /\ wire' = IF spi /\ spi_master THEN Append(wire, led_init[call.i + 1])
               ELSE wire
    /\ pc' = "spi_transfer"
    /\ UNCHANGED <<button, systick, last_button_press, switch_count,
                   execute_command, position, led, led1, led2, eeprom, nvm_op,
                   timer, adc, spi, spi_master, pin7_isc, budget, ticks,
                   presses, call, spi_if, spi_status, rd, since>>

\* The peripheral, enabled as a master, completes the transfer.
Spi_transfer_complete ==
    /\ pc = "spi_transfer"
    /\ spi
    /\ spi_master
    /\ ~spi_if
    /\ spi_if' = TRUE
    /\ UNCHANGED <<pc, button, systick, last_button_press, switch_count,
                   execute_command, position, led, led1, led2, eeprom, wire,
                   nvm_op, timer, adc, spi, spi_master, pin7_isc, budget,
                   ticks, presses, call, spi_status, rd, since>>

\* spi_transfer(): while (!(SPI0.INTFLAGS & SPI_IF_bm)) is left and
\* SPI0.DATA is read, which clears the flag.
Spi_transfer_return ==
    /\ pc = "spi_transfer"
    /\ spi_if
    /\ spi_if' = FALSE
    /\ call' = [call EXCEPT !.i = call.i + 1]
    /\ pc' = "led_init"
    /\ UNCHANGED <<button, systick, last_button_press, switch_count,
                   execute_command, position, led, led1, led2, eeprom, wire,
                   nvm_op, timer, adc, spi, spi_master, pin7_isc, budget,
                   ticks, presses, spi_status, rd, since>>

\* led_init() returns; the rest of the start-up of main() to the loop.
StartUp ==
    /\ pc = "led_init"
    /\ call.i = Len(led_init)
    /\ \E status \in {BATTERY_Ok, BATTERY_Fault} :
          wire' = led_blink(LeftRightAlt,
                            IF status = BATTERY_Ok THEN ReadyColor
                                                   ELSE ErrorColor,
                            LED_Delay_MS_200, 2)
    /\ adc' = FALSE
    /\ timer' = TRUE
    /\ led1' = loaded(eeprom, ee_led1)
    /\ led2' = loaded(eeprom, ee_led2)
    /\ nvm_op' = "read"
    /\ call' = NoCall
    /\ pc' = "loop"
    /\ UNCHANGED <<button, systick, last_button_press, switch_count,
                   execute_command, position, led, eeprom, spi, spi_master,
                   pin7_isc, budget, ticks, presses, spi_if, spi_status, rd,
                   since>>

NextSpi ==
    \/ Press
    \/ Release
    \/ Spi_init_enable
    \/ SS_low
    \/ Spi_init_return
    \/ Spi_transfer_write
    \/ Spi_transfer_complete
    \/ Spi_transfer_return
    \/ StartUp

SpecSpi == InitSpi /\ [][NextSpi]_vars

\* main() goes on executing, and the peripheral completes the transfers it
\* makes; nothing is required of the select pin.
SpecSpiFair ==
    /\ SpecSpi
    /\ WF_vars(Spi_init_enable)
    /\ WF_vars(Spi_init_return)
    /\ WF_vars(Spi_transfer_write)
    /\ WF_vars(Spi_transfer_complete)
    /\ WF_vars(Spi_transfer_return)
    /\ WF_vars(StartUp)

(***************************************************************************)
(* Properties.                                                             *)
(***************************************************************************)
Attrs == {"intensity", "red", "green", "blue"}

\* The attribute the spec assigns to command n.
AttrOf(n) ==
    CASE n = 1 -> "red"
      [] n = 2 -> "green"
      [] n = 3 -> "blue"
      [] n = 4 -> "intensity"

\* The attributes in which two records differ.
Changed(old, new) == {a \in Attrs : old[a] # new[a]}

\* C1: a dispatch with click count n in 1..4 makes n the command and enters
\* the command block, and every pass of the adjustment loop of command n
\* changes the attribute red (1), green (2), blue (3) or intensity (4) of
\* the target record and no other attribute of it.
C1_SelectedAttribute ==
    [][ /\ (Dispatch /\ switch_count \in Commands
                     /\ command_due(switch_count, Elapsed))
           => (execute_command' = switch_count /\ pc' = "select")
        /\ AdjustIter
           => Changed(deref(led, led1, led2), deref(led, led1', led2'))
              = {AttrOf(execute_command)} ]_vars

\* Four clicks: one pass of the intensity loop on the left record has run.
C1_Witness ==
    /\ pc = "adjust"
    /\ execute_command = 4
    /\ led = "led1"
    /\ budget = MaxAdjust - 1
    /\ led1 = LED_Data(4, 0, 255, 255)

\* C2: a dispatch of a click count of 5 or more enters the command block
\* with a command outside 1..4, and that command takes the default branch:
\* the Error blink on both channels, both records as they were.
C2_UnknownGesture ==
    [][ /\ (Dispatch /\ command_due(switch_count, Elapsed)
                     /\ switch_count \notin Commands)
           => (pc' = "select" /\ execute_command' \notin Commands)
        /\ (pc = "adjust" /\ pc' # pc /\ execute_command \notin Commands)
           => /\ wire' = led_blink(LeftRight, ErrorColor,
                                   LED_Delay_MS_500, 4)
              /\ UNCHANGED <<led1, led2>> ]_vars

\* The data-model range of the intensity field.
IntensityRange == 0..63

\* C3: a pass of the intensity loop that starts from an intensity in 0..63
\* leaves it in LED_MIN_INTENSITY..LED_MAX_INTENSITY; from 15 it gives 1,
\* from v in 1..14 it gives v + 1.
C3_IntensityRange ==
    [][ (AdjustIter /\ execute_command = 4
                    /\ deref(led, led1, led2).intensity \in IntensityRange)
        => LET v == deref(led, led1, led2).intensity
               w == deref(led, led1', led2').intensity
           IN /\ w \in LED_MIN_INTENSITY..LED_MAX_INTENSITY
              /\ (v = LED_MAX_INTENSITY) => (w = LED_MIN_INTENSITY)
              /\ (v \in LED_MIN_INTENSITY..(LED_MAX_INTENSITY - 1))
                 => (w = v + 1) ]_vars

\* A session on the right record that started at 15 has made one pass.
C3_Witness ==
    /\ pc = "adjust"
    /\ execute_command = 4
    /\ led = "led2"
    /\ budget = MaxAdjust - 1
    /\ eeprom[ee_led2 + 1] = LED_MAX_INTENSITY
    /\ led2.intensity = LED_MIN_INTENSITY

RECURSIVE ColourPow(_)
\* 2^k passes of a colour loop, as a function of the value they start from.
ColourPow(k) ==
    IF k = 0 THEN [v \in Byte |-> color_step(v)]
    ELSE LET g == ColourPow(k - 1) IN [v \in Byte |-> g[g[v]]]

RECURSIVE ColourReach(_)
\* The values that fewer than 2^k passes produce from 0.
ColourReach(k) ==
    IF k = 0 THEN {0}
    ELSE LET r == ColourReach(k - 1)
             g == ColourPow(k - 1)
         IN r \cup {g[v] : v \in r}

ColoursFromZero == ColourReach(8)

\* C4: a pass of the loop of command 1, 2 or 3 replaces the selected colour
\* value v by (v + 1) mod 256, and repeated passes reach every value 0..255.
C4_ColourWrap ==
    [][ /\ ColoursFromZero = Byte
        /\ (AdjustIter /\ execute_command \in 1..3)
           => LET a == AttrOf(execute_command)
              IN deref(led, led1', led2')[a]
                 = (deref(led, led1, led2)[a] + 1) % 256 ]_vars

\* A green session on the left record that started at 255 has made one pass.
C4_Witness ==
    /\ pc = "adjust"
    /\ execute_command = 2
    /\ led = "led1"
    /\ budget = MaxAdjust - 1
    /\ eeprom[ee_led1 + 3] = 255
    /\ led1.green = 0

\* C5: a step that dispatches (it sets the command or clears the count) is
\* taken with a count above 0 and more than the command window elapsed
\* since the last press; the command it sets is the count, and it clears
\* the count.
C5_Dispatch ==
    [][ (Dispatch /\ (execute_command' # execute_command
                      \/ switch_count' # switch_count))
        => /\ switch_count > 0
           /\ ul_gt(Elapsed, ulong(SWITCH_COMMAND_EXECUTE_MS))
           /\ execute_command' = switch_count
           /\ switch_count' = 0 ]_vars

stored(addr) ==
    [intensity |-> eeprom[addr + 1], red |-> eeprom[addr + 2],
     green |-> eeprom[addr + 3], blue |-> eeprom[addr + 4]]

\* C7: the commit of a session on a channel stores that channel's record,
\* all four fields, and leaves the other channel's bytes alone; no other
\* step changes the EEPROM, through shutdown and restart; the load at
\* start-up yields the stored records; so outside start-up and sessions
\* each record in RAM is the one last committed or loaded.
C7_RoundTrip ==
    /\ [](pc \notin {"boot", "adjust", "persist"}
          => (led1 = stored(ee_led1) /\ led2 = stored(ee_led2)))
    /\ [][ /\ (pc = "persist" /\ pc' # pc)
              => IF position = LED_Position_Left
                 THEN /\ stored(ee_led1)' = led1
                      /\ stored(ee_led2)' = stored(ee_led2)
                 ELSE /\ stored(ee_led2)' = led2
                      /\ stored(ee_led1)' = stored(ee_led1)
           /\ (eeprom' # eeprom) => (pc = "persist")
           /\ (pc = "boot" /\ pc' # pc)
              => (led1' = stored(ee_led1) /\ led2' = stored(ee_led2)) ]_vars

\* A red session on the left channel was committed, the device was shut
\* down and woken, and the load has returned the committed record.
C7_Witness ==
    /\ pc = "loop"
    /\ nvm_op = "read"
    /\ led1 = LED_Data(3, 1, 255, 255)
    /\ led2 = LED_Data(3, 255, 0, 255)

\* C8: the EEPROM is written only at the end of a session of command 1..4,
\* and read only by the load at start-up.
C8_WriteOnlyAfterSession ==
    /\ (nvm_op = "write")
       => (pc = "confirm" /\ execute_command \in Commands)
    /\ (nvm_op = "read") => (pc = "loop" /\ execute_command = 0)

\* C9: when the selection loop ends, the channel is left if the number of
\* presses made during the selection is even and right if it is odd.
C9_EveryPressToggles ==
    (pc = "adjust")
    => ((position = LED_Position_Left) <=> (presses = 0))

C11_SessionEnd ==
    [][ /\ (pc = "adjust" /\ execute_command \in Commands /\ pc' # pc)
           => (button /\ pc' = "persist"
               /\ UNCHANGED <<led1, led2, eeprom>>)
        /\ (pc = "adjust" /\ execute_command \in Commands
                          /\ budget' # budget)
           => (~button /\ pc' = "adjust")
        /\ (pc = "persist" /\ pc' # pc)
           => /\ pc' = "confirm"
              /\ nvm_op' = "write"
              /\ stored(IF position = LED_Position_Left
                        THEN ee_led1 ELSE ee_led2)'
                 = deref(led, led1, led2)
              /\ UNCHANGED <<execute_command, switch_count>>
        /\ (pc = "confirm" /\ pc' # pc)
           => /\ pc' = "loop"
              /\ wire' = led_blink(LeftRightAlt, ReadyColor,
                                   LED_Delay_MS_500, 2)
              /\ execute_command' = 0
              /\ switch_count' = 0
              /\ UNCHANGED eeprom ]_vars

\* A session of command 3 made a pass, was ended by a press and committed.
C11_Witness ==
    /\ pc = "confirm"
    /\ execute_command = 3
    /\ button
    /\ budget < MaxAdjust
    /\ nvm_op = "write"
    /\ led1.blue = 0
    /\ eeprom[ee_led1 + 4] = 0

\* The length of a display update for LED_NUMBER_OF_LEDS channels.
UpdateLen == LED_FRAME_SIZE + LED_FRAME_SIZE * LED_NUMBER_OF_LEDS
             + LED_FRAME_SIZE

\* w is one display update: four 0x00 bytes, the channel frames, four 0xFF
\* bytes.
IsUpdate(w) ==
    /\ Len(w) = UpdateLen
    /\ \A k \in 1..LED_FRAME_SIZE :
          w[k] = 0 /\ w[UpdateLen - LED_FRAME_SIZE + k] = 255

\* w is a concatenation of display updates.
IsUpdates(w) ==
    /\ Len(w) % UpdateLen = 0
    /\ \A n \in 0..(Len(w) \div UpdateLen - 1) :
          IsUpdate(SubSeq(w, n * UpdateLen + 1, (n + 1) * UpdateLen))

\* C12: before shutdown the bytes every step sends are a concatenation of
\* complete display updates of 4 + 4*N + 4 bytes (led_data on its own
\* sends one channel frame); what led_init, leds_off, led_color and the
\* update at the top of the main loop send is exactly one update.
C12_CompleteUpdates ==
    /\ []((pc # "sleep" /\ call.fn \notin {"led_data", "led_disable"})
          => IsUpdates(wire))
    /\ []((pc = "return"
           /\ call.fn \in {"led_init", "leds_off", "led_color"})
          => (IsUpdate(wire) /\ UpdateLen = 16))
    /\ [][LoopIdle => IsUpdate(wire')]_vars

\* led_color has returned from lighting the right channel only.
C12_Witness ==
    /\ pc = "return"
    /\ call.fn = "led_color"
    /\ call.position = LED_Position_Right
    /\ call.color = LED_Data(15, 18, 52, 86)
    /\ wire = <<0, 0, 0, 0, 224, 0, 0, 0, 239, 86, 52, 18,
                255, 255, 255, 255>>

\* C13: what led_data sends for a record is four bytes: the mode byte, whose
\* top three bits are set and whose low five bits are those of the
\* intensity (0xE0 | (intensity & 0x3F)), then blue, green, red unmodified.
C13_ChannelFrame ==
    (pc = "return" /\ call.fn = "led_data")
    => /\ Len(wire) = 4
       /\ wire[1] \div 32 = 7
       /\ wire[1] % 32 = call.color.intensity % 32
       /\ wire[2] = call.color.blue
       /\ wire[3] = call.color.green
       /\ wire[4] = call.color.red

\* led_data has sent a record of intensity 63.
C13_Witness ==
    /\ pc = "return"
    /\ call.fn = "led_data"
    /\ call.color = LED_Data(63, 18, 52, 86)
    /\ wire = <<255, 86, 52, 18>>

\* The position mask has the flag set.
HasFlag(mask, flag) == (mask \div flag) % 2 = 1

\* The frame of channel j (0 is left, 1 is right) in the update w.
FrameOf(w, j) ==
    SubSeq(w, LED_FRAME_SIZE * (j + 1) + 1, LED_FRAME_SIZE * (j + 2))

OffFrame == <<224, 0, 0, 0>>

\* C14: the frames led_init and leds_off send, and the frame led_color
\* sends for a channel that no flag of the position mask selects, are the
\* four bytes 0xE0, 0x00, 0x00, 0x00.
C14_OffFrame ==
    /\ (pc = "return" /\ call.fn \in {"led_init", "leds_off"})
       => (FrameOf(wire, 0) = OffFrame /\ FrameOf(wire, 1) = OffFrame)
    /\ (pc = "return" /\ call.fn = "led_color")
       => /\ (~HasFlag(call.position, LED_Position_Left)
              /\ ~HasFlag(call.position, LED_Position_Left_Alternating))
             => FrameOf(wire, 0) = OffFrame
          /\ (~HasFlag(call.position, LED_Position_Right)
              /\ ~HasFlag(call.position, LED_Position_Right_Alternating))
             => FrameOf(wire, 1) = OffFrame

\* led_color has lit the right channel through its alternating flag and
\* sent the off frame for the left one.
C14_Witness ==
    /\ pc = "return"
    /\ call.fn = "led_color"
    /\ call.position = LED_Position_Right_Alternating
    /\ call.color = LED_Data(1, 255, 0, 1)
    /\ FrameOf(wire, 0) = OffFrame
    /\ FrameOf(wire, 1) = <<225, 1, 0, 255>>

SleepUpdate ==
    <<0, 0, 0, 0, 160, 0, 0, 0, 160, 0, 0, 0, 255, 255, 255, 255>>

\* C15: led_disable makes exactly 4 passes, each sending four 0x00 bytes, N
\* frames 0xA0 0x00 0x00 0x00 and four 0xFF bytes with the SPI left
\* enabled, and after the fourth pass it disables the SPI and returns.
C15_SleepSequence ==
    [][ (pc = "call" /\ call.fn = "led_disable")
        => /\ call.i \in 0..4
           /\ (call.i < 4)
              => /\ wire' = SleepUpdate
                 /\ spi' = spi
                 /\ pc' = "call"
                 /\ call'.i = call.i + 1
           /\ (call.i = 4)
              => /\ wire' = <<>>
                 /\ spi' = FALSE
                 /\ pc' = "return" ]_vars

\* led_disable has returned after its four passes.
C15_Witness ==
    /\ pc = "return"
    /\ call.fn = "led_disable"
    /\ call.i = 4
    /\ ~spi

LitFrame(c) == <<224 + (c.intensity % 32), c.blue, c.green, c.red>>

\* The update w lights the left channel iff left and the right channel iff
\* right, with the record c, and sends the off frame otherwise.
Lights(w, c, left, right) ==
    /\ IsUpdate(w)
    /\ FrameOf(w, 0) = IF left THEN LitFrame(c) ELSE OffFrame
    /\ FrameOf(w, 1) = IF right THEN LitFrame(c) ELSE OffFrame

\* C17: a pass of the loop of led_blink sends two updates: the first lights
\* the channels of the Left and Right flags of the mask, the second those
\* of the Left_Alternating and Right_Alternating flags, all others off.
C17_HalfCycles ==
    [][ (pc = "call" /\ call.fn = "led_blink" /\ call'.i # call.i)
        => /\ Len(wire') = 2 * UpdateLen
           /\ Lights(SubSeq(wire', 1, UpdateLen), call.color,
                     HasFlag(call.position, LED_Position_Left),
                     HasFlag(call.position, LED_Position_Right))
           /\ Lights(SubSeq(wire', UpdateLen + 1, 2 * UpdateLen),
                     call.color,
                     HasFlag(call.position, LED_Position_Left_Alternating),
                     HasFlag(call.position,
                             LED_Position_Right_Alternating)) ]_vars

\* With the mask Left | Right_Alternating the first pass has lit the left
\* channel, then the right one.
C17_Witness ==
    /\ pc = "call"
    /\ call.fn = "led_blink"
    /\ call.position = LED_Position_Left + LED_Position_Right_Alternating
    /\ call.color = ReadyColor
    /\ call.i = 1
    /\ wire = <<0, 0, 0, 0, 225, 0, 255, 0, 224, 0, 0, 0,
                255, 255, 255, 255,
                0, 0, 0, 0, 224, 0, 0, 0, 225, 0, 255, 0,
                255, 255, 255, 255>>

\* C18: every call of led_blink returns, and the last update it sends
\* before it returns turns all channels off.
C18_BlinkTerminates ==
    /\ (pc = "call" /\ call.fn = "led_blink") ~> (pc = "return")
    /\ [][ (pc = "call" /\ call.fn = "led_blink" /\ pc' = "return")
           => Lights(wire', call.color, FALSE, FALSE) ]_vars

ShutdownPath ==
    <<"blink_ready", "blink_warning", "blink_error", "shutdown",
      "shutdown_battery", "shutdown_led", "shutdown_pin", "sleep">>

\* The index of a position in the shutdown path.
PathIndex(p) == CHOOSE k \in 1..Len(ShutdownPath) : ShutdownPath[k] = p

\* C20: from the long-hold timeout on, whatever the button does, main()
\* only moves along the shutdown path: the Ready, Warning and Error blinks,
\* then the tick timer is disabled, then the battery measurement, then the
\* LED sleep sequence is sent and the SPI disabled, then the button pin is
\* set to interrupt on both edges, then the device sleeps; until its step,
\* each of these is as it was.
C20_ShutdownOrder ==
    [][ (pc \in {ShutdownPath[k] : k \in 1..7})
        => /\ pc' \in {pc, ShutdownPath[PathIndex(pc) + 1]}
           /\ (pc' # pc)
              => /\ (pc = "blink_ready")
                    => wire' = led_blink(LeftRightAlt, ReadyColor,
                                         LED_Delay_MS_500, 0)
                 /\ (pc = "blink_warning")
                    => wire' = led_blink(LeftRightAlt, WarningColor,
                                         LED_Delay_MS_500, 0)
                 /\ (pc = "blink_error")
                    => wire' = led_blink(LeftRightAlt, ErrorColor,
                                         LED_Delay_MS_500, 0)
                 /\ timer' = (PathIndex(pc) < 4)
                 /\ adc' = FALSE
                 /\ spi' = (PathIndex(pc) < 6)
                 /\ (pc = "shutdown_led")
                    => wire' = SleepUpdate \o SleepUpdate \o SleepUpdate
                               \o SleepUpdate
                 /\ pin7_isc' = IF pc = "shutdown_pin" THEN "BOTHEDGES"
                                 ELSE "INTDISABLE" ]_vars

\* The button was released during the shutdown; the LED sleep sequence has
\* been sent and the pin is not yet configured.
C20_Witness ==
    /\ pc = "shutdown_pin"
    /\ ~button
    /\ ~timer
    /\ ~spi
    /\ pin7_isc = "INTDISABLE"

\* C21: while the device sleeps the tick timer is off and nothing changes;
\* the sleep ends only with an edge on the button pin, and that step is a
\* reset: the tick counter, the click count and the pending command are 0,
\* and they still are when the start-up has loaded both channel records
\* from the EEPROM.
C21_WakeRestarts ==
    /\ [](pc = "sleep" => ~timer /\ pin7_isc = "BOTHEDGES")
    /\ [][ /\ (pc = "sleep" /\ pc' = "sleep")
              => UNCHANGED <<button, systick, switch_count, execute_command,
                             led1, led2, eeprom>>
           /\ (pc = "sleep" /\ pc' # "sleep")
              => /\ button' # button
                 /\ pc' = "boot"
                 /\ systick' = ulong(0)
                 /\ switch_count' = 0
                 /\ execute_command' = 0
                 /\ eeprom' = eeprom
           /\ (pc = "boot" /\ pc' # "boot")
              => /\ pc' = "loop"
                 /\ systick' = ulong(0)
                 /\ switch_count' = 0
                 /\ execute_command' = 0
                 /\ eeprom' = eeprom
                 /\ led1' = stored(ee_led1)
                 /\ led2' = stored(ee_led2) ]_vars

\* The device has restarted from sleep after a session was committed, and
\* has loaded the records: the tick counter was running before the sleep.
C21_Witness ==
    /\ pc = "loop"
    /\ nvm_op = "read"
    /\ eeprom # ee_initial
    /\ systick = ulong(0)
    /\ switch_count = 0
    /\ led1 = stored(ee_led1)
    /\ led2 = stored(ee_led2)
    /\ ticks = MaxTicks

\* C22: the start-up position is entered again only from sleep; each
\* position of the shutdown path is entered only from the one before it,
\* and the first only from the press-hold loop with the button held and the
\* long-hold timeout elapsed; the start-up (battery Ok or Fault) goes on to
\* the main loop, and the error blink of an unknown command goes on to the
\* write, the confirmation and the main loop, each of which can be taken.
C22_ResetOnlyAfterShutdown ==
    /\ []((pc \in {"boot", "persist", "confirm"}
           \/ (pc = "adjust" /\ execute_command \notin Commands))
          => ENABLED (Boot \/ UnknownCommand \/ Persist \/ Confirm))
    /\ [][ /\ (pc' = "boot" /\ pc # "boot") => pc = "sleep"
           /\ \A k \in 2..Len(ShutdownPath) :
                 (pc' = ShutdownPath[k] /\ pc # pc')
                 => pc = ShutdownPath[k - 1]
           /\ (pc' = "blink_ready" /\ pc # pc')
              => pc = "hold" /\ button /\ hold_timeout(Elapsed)
           /\ (pc = "boot" /\ pc' # pc) => pc' = "loop"
           /\ (pc = "adjust" /\ execute_command \notin Commands
               /\ pc' # pc)
              => pc' = "persist"
           /\ (pc = "persist" /\ pc' # pc) => pc' = "confirm"
           /\ (pc = "confirm" /\ pc' # pc) => pc' = "loop" ]_vars

\* The device has been reset by a press during the sleep, after a session
\* had changed the EEPROM.
C22_Witness ==
    /\ pc = "boot"
    /\ button
    /\ eeprom # ee_initial
    /\ systick = ulong(0)
    /\ pin7_isc = "INTDISABLE"

\* C23: a step that changes systick is either the restart, which zeroes
\* it, or one run of the tick interrupt handler with the timer enabled,
\* which adds 1 modulo 2^32 and changes nothing that main() holds; so no
\* step of main() (press handling, dispatch, channel selection, session,
\* blinks, shutdown) changes it.
C23_TickOnly ==
    [][ (systick' # systick)
        => \/ /\ pc = "sleep"
              /\ pc' = "boot"
              /\ systick' = ulong(0)
           \/ /\ timer
              /\ systick' = ul_add(systick, ulong(1))
              /\ UNCHANGED <<pc, button, last_button_press, switch_count,
                             execute_command, position, led, led1, led2,
                             eeprom, wire, nvm_op, timer, adc, spi,
                             spi_master, pin7_isc, rd>> ]_vars

\* The tick interrupt has taken the counter through its wrap while main()
\* was in the middle of a read of it.
C23_Witness ==
    /\ pc = "hold_read"
    /\ Len(rd) = 2
    /\ systick = ulong(1)
    /\ since = SWITCH_SYSTEM_OFF_TIME_MS
    /\ ul_gt(last_button_press, systick)

\* C24: whenever the counter is since interrupts past last_button_press,
\* through its wrap or not, the three elapsed-time tests on the unsigned
\* difference give what they give on since itself; and the long-hold and
\* dispatch tests of main(), when the read they make returns the counter
\* as it is, go the way of since.
C24_WrapSafe ==
    /\ []((systick = ul_add(last_button_press, ulong(since)))
          => /\ hold_timeout(Elapsed) = (since > SWITCH_SYSTEM_OFF_TIME_MS)
             /\ command_due(switch_count, Elapsed)
                = (switch_count > 0 /\ since > SWITCH_COMMAND_EXECUTE_MS)
             /\ select_again(Elapsed) = (since < SWITCH_COMMAND_EXECUTE_MS))
    /\ [][ (/\ systick = ul_add(last_button_press, ulong(since))
            /\ Len(rd) = sizeof_ulong
            /\ assembled(rd) = systick
            /\ pc' # pc)
           => /\ (pc = "hold_read")
                 => (pc' = "blink_ready")
                    = (since > SWITCH_SYSTEM_OFF_TIME_MS)
              /\ (pc = "dispatch_read")
                 => (pc' = "select")
                    = (since > SWITCH_COMMAND_EXECUTE_MS) ]_vars

\* The long-hold test has fired once the counter, which wrapped during
\* the hold, was more than SWITCH_SYSTEM_OFF_TIME_MS past the press.
C24_Witness ==
    /\ pc = "blink_ready"
    /\ ul_gt(last_button_press, systick)
    /\ systick = ul_add(last_button_press, ulong(since))
    /\ since = SWITCH_SYSTEM_OFF_TIME_MS + 1

\* C25: the load that completes a read of systick leaves main() with a
\* value the counter held between the first load of the read and now, and
\* the long-hold test fires only when SWITCH_SYSTEM_OFF_TIME_MS tick
\* interrupts have run since last_button_press was stored.
C25_NoTornRead ==
    [][ /\ (pc \in Reading /\ Len(rd) = sizeof_ulong - 1
            /\ Len(rd') = sizeof_ulong)
           => \E k \in 0..MaxTicks, j \in 0..MaxTicks :
                 /\ assembled(rd') = ul_add(rd[1].begun, ulong(k))
                 /\ systick = ul_add(assembled(rd'), ulong(j))
        /\ (pc = "hold_read" /\ pc' = "blink_ready")
           => since >= SWITCH_SYSTEM_OFF_TIME_MS ]_vars

\* C26: the click count changes only by a press seen in the main loop,
\* which adds exactly 1 (giving 1 from idle), or by a reset to 0; between
\* that press and the next the press-hold loop is left only on a released
\* reading or by the shutdown; and the press stores in last_button_press a
\* value the counter held while the press was handled.
C26_PressCounts ==
    [][ /\ (switch_count' # switch_count)
           => \/ /\ pc = "loop"
                 /\ button
                 /\ switch_count' = switch_count + 1
                 /\ (switch_count = 0) => (switch_count' = 1)
              \/ switch_count' = 0
        /\ (pc \in {"hold", "hold_read"} /\ pc' \notin {"hold", "hold_read"})
           => \/ pc' = "dispatch" /\ ~button
              \/ pc' = "blink_ready"
        /\ (pc = "press_read" /\ pc' = "hold")
           => \E k \in 0..MaxTicks, j \in 0..MaxTicks :
                 /\ last_button_press' = ul_add(rd[1].begun, ulong(k))
                 /\ systick = ul_add(last_button_press', ulong(j)) ]_vars

\* C27: spi_init() returns once, without enabling the peripheral a second
\* time; when the interrupt flag reports the abort after the enable it
\* returns SPI_Master_Abort with the enable and master bits cleared, and
\* otherwise SPI_None with both bits set.
C27_InitStatus ==
    /\ []((spi_status = <<SPI_None>>) => (spi /\ spi_master))
    /\ []((spi_status = <<SPI_Master_Abort>>) => (~spi /\ ~spi_master))
    /\ [][ /\ (pc = "spi_init_check" /\ pc' # pc)
              => /\ pc' = "led_init"
                 /\ spi_status' = IF spi_if THEN <<SPI_Master_Abort>>
                                   ELSE <<SPI_None>>
           /\ (pc # "spi_init") => (pc' # "spi_init") ]_vars

\* C28: from a state of the main loop with at least one click counted, the
\* button released and three tick batches still to come, either the
\* button is pressed again or the count is dispatched as a command.
C28_DispatchLive ==
    (/\ pc \in {"loop", "dispatch"}
     /\ switch_count > 0
     /\ ~button
     /\ ticks >= 3)
    ~> (button \/ (pc = "select" /\ execute_command # 0
                               /\ switch_count = 0))

\* Two clicks were dispatched as command 2, the button released since.
C28_Witness ==
    /\ pc = "select"
    /\ execute_command = 2
    /\ switch_count = 0
    /\ ~button
    /\ hold_timeout(Elapsed)
    /\ presses = 0

\* C29: the first shutdown blink is entered only from the press-hold loop
\* of the main loop, where no command is pending; from the channel
\* selection, the adjustment loop, the error blink, the write and the
\* confirmation, main() goes only to one of these or back to the main
\* loop, whatever the button does and however long.
C29_ShutdownFromHold ==
    /\ []((pc \in {"hold"} \cup {ShutdownPath[k] : k \in 1..Len(ShutdownPath)})
          => execute_command = 0)
    /\ [][ /\ (pc' = "blink_ready" /\ pc # "blink_ready")
              => (pc = "hold" /\ execute_command = 0)
           /\ (pc \in {"select", "adjust", "persist", "confirm"})
              => pc' \in {"select", "adjust", "persist", "confirm", "loop"}
         ]_vars

\* The button is down at the confirmation of a command, more than
\* SWITCH_SYSTEM_OFF_TIME_MS after the last press recorded.
C29_Witness ==
    /\ pc = "confirm"
    /\ button
    /\ execute_command \in Commands
    /\ hold_timeout(Elapsed)
    /\ nvm_op = "write"

\* C30: once spi_init() has returned SPI_Master_Abort inside led_init(),
\* with the peripheral disabled, led_init() returns and main() reaches its
\* loop.
C30_InitTerminates ==
    (spi_status = <<SPI_Master_Abort>>) ~> (pc = "loop")

\* C31: whenever main() is at the top of its loop, each record in RAM
\* equals the record the EEPROM holds for its channel, so that the load
\* after a shutdown and restart yields the colours shown before it.
C31_RamIsStored ==
    pc = "loop" => /\ led1 = stored(ee_led1)
                   /\ led2 = stored(ee_led2)

\* C32: when the selection loop is left, the pointer the adjustment loop
\* mutates through is &led1 exactly if position is LED_Position_Left, and
\* so is it still when the record of position is written to the EEPROM.
C32_SelectedRecord ==
    pc \in {"adjust", "persist"}
        => (led = "led1" <=> position = LED_Position_Left)

\* C33: a dispatch runs the accumulated click count as the command: the
\* copy into execute_command keeps its value, so a count outside 1..4 does
\* not become a command in 1..4 and a count above 0 does not become no
\* command.
C33_CommandIsCount ==
    [][ (Dispatch /\ command_due(switch_count, Elapsed))
        => /\ execute_command' = switch_count
           /\ switch_count \notin Commands => execute_command' \notin Commands
           /\ switch_count # 0 => execute_command' # 0 ]_vars

\* C34: a pass of the intensity loop leaves the intensity in
\* LED_MIN_INTENSITY..LED_MAX_INTENSITY from every value a byte of the
\* EEPROM can hold; from 255 it does not give 0.
C34_IntensityFromAnyByte ==
    [][ (AdjustIter /\ execute_command = 4)
        => LET v == deref(led, led1, led2).intensity
               w == deref(led, led1', led2').intensity
           IN /\ v \in Byte
              /\ w \in LED_MIN_INTENSITY..LED_MAX_INTENSITY
              /\ (v = UCHAR_MOD - 1) => (w # 0) ]_vars

\* C35: a poll of the hold loop with the button down and more than
\* SWITCH_SYSTEM_OFF_TIME_MS elapsed since the press starts the shutdown
\* blinks at every click count; from there to the restart no command is
\* set, the count is kept or cleared, and the restart begins with the
\* count and the command at 0.
C35_HoldAfterClicks ==
    [][ /\ (HoldPoll /\ button /\ hold_timeout(Elapsed))
           => pc' = "blink_ready"
        /\ (\E k \in 1..Len(ShutdownPath) : ShutdownPath[k] = pc)
           => /\ execute_command = 0
              /\ execute_command' = 0
              /\ switch_count' \in {switch_count, 0}
              /\ \/ \E k \in 1..Len(ShutdownPath) : ShutdownPath[k] = pc'
                 \/ pc' = "boot" /\ switch_count' = 0 ]_vars

\* The device sleeps after a long hold of the second click of a gesture.
C35_Witness ==
    /\ pc = "sleep"
    /\ switch_count = 2
    /\ button
    /\ hold_timeout(Elapsed)

\* C36: the press that ends a session is not counted as a click: while the
\* button is only held or released after it, never pressed again, the click
\* count is 0.
C36_EndingPressNotCounted == switch_count = 0

\* The mode bytes of the channel frames of the updates that make up w.
ModeBytes(w) ==
    {w[n * UpdateLen + LED_FRAME_SIZE * (j + 1) + 1] :
        n \in 0..(Len(w) \div UpdateLen - 1),
        j \in 0..(LED_NUMBER_OF_LEDS - 1)}

\* C37: a step sends frames with the mode byte LED_SLEEP_FLAG only as
\* led_disable() in system_shutdown(); what any other step sends is made of
\* updates whose frames all have a mode byte of LED_ENABLE_FLAG or more;
\* after led_disable() the SPI is off and nothing is sent until the
\* restart.
C37_SleepFramesInShutdown ==
    /\ [](pc \in {"shutdown_pin", "sleep"} => ~spi)
    /\ [][ /\ (wire' # wire /\ LED_SLEEP_FLAG \in ModeBytes(wire'))
              => (pc = "shutdown_led" /\ wire' = led_disable)
           /\ (wire' # wire /\ pc # "shutdown_led")
              => /\ IsUpdates(wire')
                 /\ \A m \in ModeBytes(wire') : m >= LED_ENABLE_FLAG
           /\ (pc \in {"shutdown_pin", "sleep"} /\ wire' # wire)
              => wire' = <<>> ]_vars

\* system_shutdown() has just sent the sleep frames.
C37_Witness ==
    /\ pc = "shutdown_pin"
    /\ ModeBytes(wire) = {LED_SLEEP_FLAG}
    /\ ~spi

\* C38: every pass of the main loop first sends one update whose first
\* channel frame is that of the left record and whose second is that of
\* the right record, as they are in RAM at that moment, and leaves the
\* records as they are.
C38_LoopUpdate ==
    [][ (pc = "loop" /\ pc' # pc)
        => LET u == SubSeq(wire', 1, UpdateLen)
           IN /\ IsUpdate(u)
              /\ FrameOf(u, 0) = LitFrame(led1)
              /\ FrameOf(u, 1) = LitFrame(led2)
              /\ UNCHANGED <<led1, led2>> ]_vars

\* The update of the pass after a session that changed the right record.
C38_Witness ==
    /\ pc = "dispatch"
    /\ led2 # loaded(ee_initial, ee_led2)
    /\ FrameOf(wire, 0) = LitFrame(led1)
    /\ FrameOf(wire, 1) = LitFrame(led2)
    /\ IsUpdate(wire)

\* C39: a pass of an adjustment loop mutates the record led points to and
\* then sends exactly one update, which lights the channel of position, and
\* only it, with that record as it is after the mutation, the other channel
\* getting the off frame; the other record is left as it is.
C39_LiveUpdate ==
    [][ AdjustIter
        => /\ deref(led, led1', led2')
              = adjusted(deref(led, led1, led2), execute_command)
           /\ deref(led, led2', led1') = deref(led, led2, led1)
           /\ Len(wire') = UpdateLen
           /\ Lights(wire', deref(led, led1', led2'),
                     position = LED_Position_Left,
                     position = LED_Position_Right)
           /\ FrameOf(wire', IF position = LED_Position_Left THEN 1 ELSE 0)
              = OffFrame ]_vars

\* The second pass of the loop of command 1 on the right channel has sent
\* its update.
C39_Witness ==
    /\ pc = "adjust"
    /\ execute_command = 1
    /\ position = LED_Position_Right
    /\ led = "led2"
    /\ budget = MaxAdjust - 2
    /\ led2.red = (loaded(ee_initial, ee_led2).red + 2) % UCHAR_MOD
    /\ FrameOf(wire, 0) = OffFrame
    /\ FrameOf(wire, 1) = LitFrame(led2)

=============================================================================
